---- MODULE Spec2Model ----
(***************************************************************************)
(* A model of simple_serde: the binary backend (src/src/bin.rs), the       *)
(* intermediate text value (src/src/text/mod.rs), the container adapters   *)
(* (src/src/common.rs) and the text parsers (src/src/text/*.rs).           *)
(*                                                                         *)
(* Conventions.  A Rust String is its UTF-8 byte sequence on the binary    *)
(* backend (a sequence over 0..255) and a sequence of one-character        *)
(* strings on the text backend.  A Result is a record tagged "Ok" or       *)
(* "Err"; a Rust panic is the record tagged "Panic".  An operation on a    *)
(* `&mut` backend is an operator returning [r |-> result, b |-> backend'].  *)
(***************************************************************************)
EXTENDS Integers, Sequences, FiniteSets, TLC

VARIABLES
    bytes,      \* the Binary buffer (VecDeque<u8>)
    text,       \* the TextRepr value
    written,    \* history: primitives / fields written and not yet read back
    sync,       \* history: every read so far asked for the type at the head of written
    expect,     \* history: the value the last read had at the head of written
    nread,      \* history: reads (binary buffer) or writes (text value) counted against a bound
    result,     \* the Result (or panic) of the last operation
    op,         \* the name of the last operation
    arg,        \* the argument of the last operation
    before      \* the backend as it was before the last operation

vars == <<bytes, text, written, sync, expect, nread, result, op, arg, before>>

(***************************************************************************)
(* Bounds of the model.                                                    *)
(***************************************************************************)
MaxPrims == 2       \* primitives written positionally in one run
MaxStrLen == 2      \* bytes in a string written to the binary buffer
MaxLoad == 5        \* bytes of external input handed to deserialize_bin

RECURSIVE SeqsUpTo(_, _)
SeqsUpTo(S, n) ==
    IF n = 0 THEN {<<>>}
    ELSE LET shorter == SeqsUpTo(S, n - 1)
         IN  shorter \cup {Append(s, x) : s \in {t \in shorter : Len(t) = n - 1}, x \in S}

None == [tag |-> "None"]
Panic == [tag |-> "Panic"]
Ok(v) == [tag |-> "Ok", val |-> v]
IsOk(r) == r.tag = "Ok"
IsErr(r) == r.tag = "Err"
IsPanic(r) == r.tag = "Panic"

(***************************************************************************)
(* Errors.  DeserializationError { field: Option<String>, kind }.          *)
(* Option is a sequence of length 0 or 1; Nested keeps the boxed error.    *)
(***************************************************************************)
KindErr(k) == [tag |-> "Err", kind |-> k]
new_kind(k) == [tag |-> "Err", kind |-> k, field |-> <<>>, inner |-> <<>>]
no_field(r) == IF IsErr(r) THEN new_kind(r.kind) ELSE r
set_field_kind(r, key) ==
    IF IsErr(r) THEN [tag |-> "Err", kind |-> r.kind, field |-> <<key>>, inner |-> <<>>] ELSE r
missing_field(key) == [tag |-> "Err", kind |-> "MissingField", field |-> <<key>>, inner |-> <<>>]
nest_set_field(e, key) == [tag |-> "Err", kind |-> "Nested", field |-> <<key>>, inner |-> <<e>>]
set_field(r, key) == IF IsErr(r) THEN [r EXCEPT !.field = <<key>>] ELSE r

(***************************************************************************)
(* Fixed-width integers (src/src/primitives.rs, serial_int!).              *)
(***************************************************************************)
NumberTypes == {"u8", "i8", "u16", "i16"}
SizeOf(T) == CASE T \in {"u8", "i8"} -> 1
               [] T \in {"u16", "i16"} -> 2
               [] T = "u32" -> 4
Signed(T) == T \in {"i8", "i16"}

RECURSIVE Pow256(_)
Pow256(n) == IF n = 0 THEN 1 ELSE 256 * Pow256(n - 1)

\* the values of each integer type the model writes
NumValues(T) == CASE T = "u8" -> {0, 255}
                  [] T = "i8" -> {-128, 97}
                  [] T = "u16" -> {2, 24935}
                  [] T = "i16" -> {-2, 258}
                  [] T = "u32" -> {0, 65536}

\* usize values above this one are represented by it: the code only ever
\* compares them with buffer lengths, which are far smaller
UsizeCap == 127 * Pow256(3) + (Pow256(3) - 1)

RECURSIVE to_be_bytes(_, _)
to_be_bytes(n, size) ==
    IF size = 0 THEN <<>> ELSE Append(to_be_bytes(n \div 256, size - 1), n % 256)

RECURSIVE from_be_bytes(_)
from_be_bytes(bs) ==
    IF bs = <<>> THEN 0
    ELSE LET hi == from_be_bytes(SubSeq(bs, 1, Len(bs) - 1))
         IN  IF hi >= Pow256(3) \div 2 THEN UsizeCap ELSE hi * 256 + bs[Len(bs)]

to_bin(T, n) == to_be_bytes(IF n < 0 THEN n + Pow256(SizeOf(T)) ELSE n, SizeOf(T))

split_first_off(bs, SIZE) ==
    IF Len(bs) <= SIZE THEN [r |-> KindErr("UnexpectedEOF"), b |-> bs]
    ELSE [r |-> Ok(SubSeq(bs, 1, SIZE)), b |-> SubSeq(bs, SIZE + 1, Len(bs))]

split_first(bs, SIZE) ==
    IF Len(bs) < SIZE THEN [r |-> KindErr("UnexpectedEOF"), b |-> bs]
    ELSE [r |-> Ok(SubSeq(bs, 1, SIZE)), b |-> SubSeq(bs, SIZE + 1, Len(bs))]

split_first_vec(bs, size) ==
    IF Len(bs) < size THEN [r |-> KindErr("UnexpectedEOF"), b |-> bs]
    ELSE [r |-> Ok(SubSeq(bs, 1, size)), b |-> SubSeq(bs, size + 1, Len(bs))]

from_bin(T, bs) ==
    LET s == split_first(bs, SizeOf(T))
        u == from_be_bytes(s.r.val)
        half == Pow256(SizeOf(T)) \div 2
    IN  IF IsErr(s.r) THEN s
        ELSE [r |-> Ok(IF Signed(T) /\ u >= half THEN u - 2 * half ELSE u), b |-> s.b]

\* SizeType::U32 is the only width the Serializer implementation uses
size_to_bytes(size) == to_bin("u32", size)
bytes_to_size(bs) == from_bin("u32", bs)

(***************************************************************************)
(* String::from_utf8: whether a byte sequence is well-formed UTF-8.        *)
(***************************************************************************)
IsCont(b) == b >= 128 /\ b <= 191

RECURSIVE IsUtf8(_)
IsUtf8(bs) ==
    IF bs = <<>> THEN TRUE
    ELSE LET b == bs[1]
             n == Len(bs)
             rest(k) == SubSeq(bs, k + 1, n)
         IN  CASE b <= 127 -> IsUtf8(rest(1))
               [] b >= 194 /\ b <= 223 ->
                    n >= 2 /\ IsCont(bs[2]) /\ IsUtf8(rest(2))
               [] b >= 224 /\ b <= 239 ->
                    /\ n >= 3
                    /\ IsCont(bs[2]) /\ IsCont(bs[3])
                    /\ (b = 224 => bs[2] >= 160)
                    /\ (b = 237 => bs[2] <= 159)
                    /\ IsUtf8(rest(3))
               [] b >= 240 /\ b <= 244 ->
                    /\ n >= 4
                    /\ IsCont(bs[2]) /\ IsCont(bs[3]) /\ IsCont(bs[4])
                    /\ (b = 240 => bs[2] >= 144)
                    /\ (b = 244 => bs[2] <= 143)
                    /\ IsUtf8(rest(4))
               [] OTHER -> FALSE

(***************************************************************************)
(* impl PrimitiveSerializer for Binary (src/src/bin.rs).                   *)
(***************************************************************************)
bin_serialize_bool(bs, boolean) == Append(bs, IF boolean THEN 255 ELSE 0)

bin_deserialize_bool_one(bs) ==
    IF bs = <<>> THEN [r |-> new_kind("UnexpectedEOF"), b |-> bs]
    ELSE CASE bs[1] = 1 -> [r |-> Ok(TRUE), b |-> Tail(bs)]
           [] bs[1] = 0 -> [r |-> Ok(FALSE), b |-> Tail(bs)]
           [] OTHER -> [r |-> new_kind("NoMatch"), b |-> Tail(bs)]

bin_deserialize_bool(bs) ==
    IF bs = <<>> THEN [r |-> new_kind("UnexpectedEOF"), b |-> bs]
    ELSE CASE bs[1] = 255 -> [r |-> Ok(TRUE), b |-> Tail(bs)]
           [] bs[1] = 0 -> [r |-> Ok(FALSE), b |-> Tail(bs)]
           [] OTHER -> [r |-> new_kind("NoMatch"), b |-> Tail(bs)]

bin_serialize_num(bs, T, num) == bs \o to_bin(T, num)

bin_deserialize_num(bs, T) ==
    LET s == from_bin(T, bs) IN [r |-> no_field(s.r), b |-> s.b]

bin_serialize_string(bs, string) == bs \o size_to_bytes(Len(string)) \o string

bin_deserialize_string(bs) ==
    LET size == bytes_to_size(bs)
        body == split_first_vec(size.b, size.r.val)
    IN  IF IsErr(size.r) THEN [r |-> no_field(size.r), b |-> size.b]
        ELSE IF IsErr(body.r) THEN [r |-> no_field(body.r), b |-> body.b]
        ELSE IF IsUtf8(body.r.val) THEN body
        ELSE [r |-> new_kind("FromUTF8Error"), b |-> body.b]

bin_serialize_bytes(bs, data) == bin_serialize_num(bs, "u32", Len(data)) \o data

\* VecDeque::drain(0..size) panics when size exceeds the length
bin_deserialize_bytes(bs) ==
    LET size == bin_deserialize_num(bs, "u32")
    IN  IF IsErr(size.r) THEN size
        ELSE IF size.r.val > Len(size.b) THEN [r |-> Panic, b |-> size.b]
        ELSE [r |-> Ok(SubSeq(size.b, 1, size.r.val)),
              b |-> SubSeq(size.b, size.r.val + 1, Len(size.b))]

(***************************************************************************)
(* Types and their structural mappings.  A type is a descriptor; a struct  *)
(* descriptor lists its keyed fields in the order its mapping writes or    *)
(* reads them (the impl Serialize / impl Deserialize a type author writes, *)
(* as in the tests of src/src/lib.rs).  A struct value is a function from  *)
(* field name to field value.                                              *)
(***************************************************************************)
TBool == [k |-> "bool"]
TNum(T) == [k |-> "num", n |-> T]
TString == [k |-> "string"]
TBytes == [k |-> "bytes"]
TVec(e) == [k |-> "vec", elem |-> e]
TMap(val) == [k |-> "map", val |-> val]
TStruct(fields) == [k |-> "struct", fields |-> fields]
Field(key, ty) == [key |-> key, ty |-> ty]

\* key.borrow().to_string().as_bytes() for the field names the model uses
as_bytes(key) ==
    CASE key = "name" -> <<110, 97, 109, 101>>
      [] key = "id" -> <<105, 100>>
      [] key = "age" -> <<97, 103, 101>>
      [] key = "one" -> <<111, 110, 101>>
      [] key = "two" -> <<116, 119, 111>>
      [] key = "x" -> <<120>>
      [] key = "" -> <<>>

\* find_key: the index just after the first window equal to the key, as an Option.
\* slice::windows(0) panics.
find_key_last(bs, key_bytes) ==
    LET n == Len(key_bytes)
        hits == {i \in 1..(Len(bs) - n + 1) : SubSeq(bs, i, i + n - 1) = key_bytes}
    IN  IF n = 0 THEN Panic
        ELSE IF hits = {} THEN Ok(<<>>)
        ELSE Ok(<<(CHOOSE i \in hits : \A j \in hits : i >= j) - 1 + n>>)

find_key(bs, key_bytes) ==
    LET n == Len(key_bytes)
        hits == {i \in 1..(Len(bs) - n + 1) : SubSeq(bs, i, i + n - 1) = key_bytes}
    IN  IF n = 0 THEN Panic
        ELSE IF hits = {} THEN Ok(<<>>)
        ELSE Ok(<<(CHOOSE i \in hits : \A j \in hits : i <= j) - 1 + n>>)

RECURSIVE bin_serialize(_, _, _)
RECURSIVE bin_serialize_fields(_, _, _, _)
RECURSIVE bin_serialize_items(_, _, _, _)
RECURSIVE bin_deserialize(_, _)
RECURSIVE bin_deserialize_fields(_, _, _, _)
RECURSIVE bin_deserialize_vec(_, _, _)
RECURSIVE vec_match(_, _, _)
RECURSIVE key_deserialize(_, _, _)
RECURSIVE key_deserialize_bytes(_, _, _)
RECURSIVE bin_serialize_entries(_, _, _, _)
RECURSIVE bin_deserialize_map(_, _, _)
RECURSIVE map_insert(_, _, _, _)
RECURSIVE map_next(_, _, _)

\* Serializer::serialize_key for Binary
bin_serialize_key(bs, key, ty, item) == bin_serialize(bs \o as_bytes(key), ty, item)

\* a struct's impl Serialize: one serialize_key per field, in declared order
bin_serialize_fields(bs, fields, i, item) ==
    IF i > Len(fields) THEN bs
    ELSE bin_serialize_fields(
            bin_serialize_key(bs, fields[i].key, fields[i].ty, item[fields[i].key]),
            fields, i + 1, item)

\* impl Serialize for Vec<V>
bin_serialize_items(bs, elem, i, items) ==
    IF i > Len(items) THEN bs
    ELSE bin_serialize_items(bin_serialize(bs, elem, items[i]), elem, i + 1, items)

\* impl Serialize for HashMap<K, V>: one serialize_key per entry; the entries come
\* as a sequence, in the map's iteration order, with the keys as their bytes
bin_serialize_entries(bs, val, i, entries) ==
    IF i > Len(entries) THEN bs
    ELSE bin_serialize_entries(bin_serialize(bs \o entries[i].key, val, entries[i].val),
                               val, i + 1, entries)

\* Serializer::serialize for Binary: item.serialize(self)
bin_serialize(bs, ty, item) ==
    CASE ty.k = "bool" -> bin_serialize_bool(bs, item)
      [] ty.k = "num" -> bin_serialize_num(bs, ty.n, item)
      [] ty.k = "string" -> bin_serialize_string(bs, item)
      [] ty.k = "bytes" -> bin_serialize_bytes(bs, item)
      [] ty.k = "vec" -> bin_serialize_items(bs, ty.elem, 1, item)
      [] ty.k = "struct" -> bin_serialize_fields(bs, ty.fields, 1, item)

\* key_deserialize without its bytes.append(&mut last)
key_deserialize_no_append(bs, key, ty) ==
    LET idx == find_key(bs, as_bytes(key))
        at == idx.val[1]
        item == bin_deserialize(SubSeq(bs, at + 1, Len(bs)), ty)
        front == SubSeq(bs, 1, at)
    IN  IF IsPanic(idx) THEN [r |-> Panic, b |-> bs]
        ELSE IF idx.val = <<>> THEN [r |-> missing_field(key), b |-> bs]
        ELSE IF IsPanic(item.r) THEN [r |-> Panic, b |-> front]
        ELSE IF IsErr(item.r) THEN [r |-> nest_set_field(item.r, key), b |-> front]
        ELSE [r |-> item.r, b |-> front]

\* key_deserialize: on an error of the nested decode the `?` returns before
\* bytes.append(&mut last), so the buffer keeps only what preceded the value
key_deserialize(bs, key, ty) ==
    LET idx == find_key(bs, as_bytes(key))
        at == idx.val[1]
        item == bin_deserialize(SubSeq(bs, at + 1, Len(bs)), ty)
        front == SubSeq(bs, 1, at)
    IN  IF IsPanic(idx) THEN [r |-> Panic, b |-> bs]
        ELSE IF idx.val = <<>> THEN [r |-> missing_field(key), b |-> bs]
        ELSE IF IsPanic(item.r) THEN [r |-> Panic, b |-> front]
        ELSE IF IsErr(item.r) THEN [r |-> nest_set_field(item.r, key), b |-> front]
        ELSE [r |-> item.r, b |-> front \o item.b]

\* key_deserialize called with a key that was read from the buffer: the key is
\* its bytes
key_deserialize_bytes(bs, key, ty) ==
    LET idx == find_key(bs, key)
        at == idx.val[1]
        item == bin_deserialize(SubSeq(bs, at + 1, Len(bs)), ty)
        front == SubSeq(bs, 1, at)
    IN  IF IsPanic(idx) THEN [r |-> Panic, b |-> bs]
        ELSE IF idx.val = <<>> THEN [r |-> missing_field(key), b |-> bs]
        ELSE IF IsPanic(item.r) THEN [r |-> Panic, b |-> front]
        ELSE IF IsErr(item.r) THEN [r |-> nest_set_field(item.r, key), b |-> front]
        ELSE [r |-> item.r, b |-> front \o item.b]

\* Serializer::try_get_key for Binary: the next key is read as a length-prefixed
\* string; k is an Option
try_get_key(bs) ==
    LET s == bin_deserialize_string(bs)
    IN  [k |-> IF IsOk(s.r) THEN <<s.r.val>> ELSE <<>>, b |-> s.b]

\* impl Deserialize for HashMap<K, V>, K = String: the map is a function from
\* the keys (as their bytes) to the values.  map_insert is the loop body after
\* deserialize_key: `.set_field(key)?`, then out.insert
map_insert(key, deser, val, out) ==
    IF IsPanic(deser.r) THEN deser
    ELSE IF IsErr(deser.r) THEN [r |-> set_field(deser.r, key), b |-> deser.b]
    ELSE bin_deserialize_map(deser.b, val,
            [k \in DOMAIN out \cup {key} |-> IF k = key THEN deser.r.val ELSE out[k]])

\* `while let Some(key) = data.try_get_key()`: got is what try_get_key returned
map_next(got, val, out) ==
    IF got.k = <<>> THEN [r |-> Ok(out), b |-> got.b]
    ELSE map_insert(got.k[1], key_deserialize_bytes(got.b, got.k[1], val), val, out)

bin_deserialize_map(bs, val, out) == map_next(try_get_key(bs), val, out)

\* Serializer::deserialize_key_internal for Binary
bin_deserialize_key(bs, key, ty) == key_deserialize(bs, key, ty)

\* a struct's impl Deserialize: one deserialize_key(..)? per field, in declared order
bin_deserialize_fields(bs, fields, i, acc) ==
    IF i > Len(fields) THEN [r |-> Ok(acc), b |-> bs]
    ELSE LET d == bin_deserialize_key(bs, fields[i].key, fields[i].ty)
         IN  IF IsOk(d.r)
             THEN bin_deserialize_fields(d.b, fields, i + 1, acc @@ (fields[i].key :> d.r.val))
             ELSE d

\* impl Deserialize for Vec<V>: decode until UnexpectedEOF
\* x is what data_ref.deserialize() returned in this turn of the loop
vec_match(x, elem, out) ==
    IF IsOk(x.r) THEN bin_deserialize_vec(x.b, elem, Append(out, x.r.val))
    ELSE IF IsErr(x.r) /\ x.r.kind = "UnexpectedEOF" THEN [r |-> Ok(out), b |-> x.b]
    ELSE x

bin_deserialize_vec(bs, elem, out) ==
    CHOOSE d \in {vec_match(x, elem, out) : x \in {bin_deserialize(bs, elem)}} : TRUE

\* Serializer::deserialize for Binary: T::deserialize(self)
bin_deserialize(bs, ty) ==
    CASE ty.k = "bool" -> bin_deserialize_bool(bs)
      [] ty.k = "num" -> bin_deserialize_num(bs, ty.n)
      [] ty.k = "string" -> bin_deserialize_string(bs)
      [] ty.k = "bytes" -> bin_deserialize_bytes(bs)
      [] ty.k = "vec" -> bin_deserialize_vec(bs, ty.elem, <<>>)
      [] ty.k = "struct" -> bin_deserialize_fields(bs, ty.fields, 1, <<>>)

(***************************************************************************)
(* The binary backend used positionally.  A run writes primitives into an  *)
(* empty buffer, or starts from external bytes (deserialize_bin), and      *)
(* then reads.                                                             *)
(***************************************************************************)
EmptyText == [t |-> "Empty"]

StrBytes == {97, 195, 169}
BinStrings == {s \in SeqsUpTo(StrBytes, MaxStrLen) : IsUtf8(s)}
LoadBytes == {0, 255}

WriteOps == {"serialize_bool", "serialize_num", "serialize_string", "serialize_bytes"}
ReadOps == {"deserialize_bool", "deserialize_num", "deserialize_string"}

InitBin ==
    /\ bytes = <<>>
    /\ text = EmptyText
    /\ written = <<>>
    /\ sync = TRUE
    /\ expect = None
    /\ nread = 0
    /\ result = None
    /\ op = "new"
    /\ arg = <<>>
    /\ before = <<>>

CanWrite == op \in WriteOps \cup {"new"} /\ Len(written) < MaxPrims
\* a caller stops at the first error (the `?` of every deserialize implementation);
\* a run ends with the first read of a type other than the one written there
CanRead == ~IsPanic(result) /\ ~IsErr(result) /\ (sync \/ op = "deserialize_bin")

Write(ty, v) ==
    /\ CanWrite
    /\ bytes' = bin_serialize(bytes, ty, v)
    /\ written' = Append(written, [ty |-> ty, v |-> v])
    /\ result' = None
    /\ arg' = v
    /\ before' = bytes
    /\ UNCHANGED <<text, sync, expect, nread>>

Read(ty) ==
    LET d == bin_deserialize(bytes, ty)
        hit == sync /\ written # <<>> /\ Head(written).ty = ty
    IN  /\ CanRead
        /\ bytes' = d.b
        /\ result' = d.r
        /\ arg' = ty
        /\ before' = bytes
        /\ sync' = hit
        /\ expect' = IF hit THEN Head(written) ELSE None
        /\ written' = IF hit THEN Tail(written) ELSE <<>>
        /\ nread' = IF hit THEN nread + 1 ELSE nread
        /\ UNCHANGED text

SerializeBool ==
    \E b \in BOOLEAN :
        /\ op' = "serialize_bool"
        /\ Write(TBool, b)
SerializeNum ==
    \E T \in NumberTypes : \E n \in NumValues(T) :
        /\ op' = "serialize_num"
        /\ Write(TNum(T), n)
SerializeString ==
    \E s \in BinStrings :
        /\ op' = "serialize_string"
        /\ Write(TString, s)
SerializeBytes ==
    \E s \in SeqsUpTo(LoadBytes, 1) :
        /\ op' = "serialize_bytes"
        /\ Write(TBytes, s)

DeserializeBool ==
    /\ op' = "deserialize_bool"
    /\ Read(TBool)
DeserializeNum ==
    \E T \in NumberTypes :
        /\ op' = "deserialize_num"
        /\ Read(TNum(T))
DeserializeString ==
    /\ op' = "deserialize_string"
    /\ Read(TString)
DeserializeBytes ==
    /\ op' = "deserialize_bytes"
    /\ Read(TBytes)

\* Vec::<V>::deserialize for a fixed-width V
DeserializeVec ==
    \E E \in {TBool} \cup {TNum(T) : T \in NumberTypes} :
        LET d == bin_deserialize(bytes, TVec(E))
            hit == sync /\ \A i \in 1..Len(written) : written[i].ty = E
        IN  /\ CanRead
            /\ bytes' = d.b
            /\ result' = d.r
            /\ op' = "deserialize_vec"
            /\ arg' = E
            /\ before' = bytes
            /\ sync' = hit
            /\ expect' = IF hit THEN [ty |-> TVec(E), v |-> [i \in 1..Len(written) |-> written[i].v]]
                         ELSE None
            /\ written' = <<>>
            /\ UNCHANGED <<text, nread>>

\* impl_bin_deser!: deserialize_bin(data) turns the caller's bytes into the buffer
DeserializeBin ==
    \E data \in SeqsUpTo(LoadBytes, MaxLoad) :
        /\ op = "new"
        /\ bytes' = data
        /\ op' = "deserialize_bin"
        /\ arg' = data
        /\ before' = bytes
        /\ sync' = FALSE
        /\ UNCHANGED <<text, written, expect, nread, result>>

\* Serializer::try_get_key on the buffer; the Option is None, or Ok(key)
TryGetKey ==
    LET got == try_get_key(bytes)
    IN  /\ CanRead
        /\ op' = "try_get_key"
        /\ bytes' = got.b
        /\ result' = IF got.k = <<>> THEN None ELSE Ok(got.k[1])
        /\ arg' = <<>>
        /\ before' = bytes
        /\ sync' = FALSE
        /\ expect' = None
        /\ written' = <<>>
        /\ UNCHANGED <<text, nread>>

NextBin ==
    \/ TryGetKey
    \/ SerializeBool
    \/ SerializeNum
    \/ SerializeString
    \/ SerializeBytes
    \/ DeserializeBool
    \/ DeserializeNum
    \/ DeserializeString
    \/ DeserializeBytes
    \/ DeserializeVec
    \/ DeserializeBin

SpecBin == InitBin /\ [][NextBin]_vars

\* C1: on the binary buffer, reading back the types that were written positionally
\* into an empty buffer, in the same order, returns exactly the written values, and
\* once every written primitive is read the buffer is empty.
C1_PositionalRoundTrip ==
    /\ (sync /\ op \in ReadOps) => (IsOk(result) /\ result.val = expect.v)
    /\ (sync /\ written = <<>>) => bytes = <<>>

C1_Witness ==
    /\ sync /\ op = "deserialize_string" /\ nread >= 2
    /\ written = <<>> /\ IsOk(result) /\ result.val # <<>>

\* C5: decoding Vec<V> for a fixed-width V from a buffer that holds exactly N encoded
\* elements is Ok with those N elements in written order (N = 0: the empty Vec).
C5_VecExactlyN ==
    (sync /\ op = "deserialize_vec") => (result = Ok(expect.v) /\ bytes = <<>>)

C5_Witness ==
    /\ sync /\ op = "deserialize_vec" /\ IsOk(result) /\ Len(result.val) >= 2
    /\ result.val[1] # result.val[2]

\* C8: decoding a string or a byte sequence from a buffer whose 4-byte length prefix
\* is larger than the number of bytes that remain returns UnexpectedEOF (no panic).
C8_TruncatedIsEOF ==
    (/\ op \in {"deserialize_string", "deserialize_bytes"}
     /\ Len(before) >= 4
     /\ from_be_bytes(SubSeq(before, 1, 4)) > Len(before) - 4)
        => (IsErr(result) /\ result.kind = "UnexpectedEOF")

\* C21: try_get_key only peeks: the contents of the binary buffer are the same
\* before and after the call, whether it returns a key or nothing.
C21_TryGetKeyPeeks ==
    op = "try_get_key" => bytes = before

(***************************************************************************)
(* Vec<V> and HashSet<V> decoded from the binary buffer (src/src/common.rs) *)
(* with one action per turn of their `loop`, so that a decode that never   *)
(* leaves the loop is a behaviour of the model.  written is `out`.  The    *)
(* loop of the Vec pushes onto out in every successful turn: an out of more *)
(* than MaxOut elements is represented by its first MaxOut elements.        *)
(***************************************************************************)
MaxOut == 2         \* elements of a decoded Vec that are told apart

LoopContainers == {"Vec", "HashSet"}
LoopElems == {TBool, TNum("u16"), TVec(TNum("u8"))}

InitLoop == InitBin

\* deserialize_bin::<Vec<V>>(data) / ::<HashSet<V>>(data) up to `let mut out = Self::new()`
LoopBegin ==
    /\ op = "new"
    /\ \E data \in SeqsUpTo(LoadBytes, MaxLoad) :
         \E c \in LoopContainers, elem \in LoopElems :
           /\ op' = "loop"
           /\ bytes' = data
           /\ arg' = <<c, elem>>
           /\ before' = data
           /\ written' = IF c = "Vec" THEN <<>> ELSE {}
           /\ sync' = FALSE
           /\ UNCHANGED <<text, expect, nread, result>>

\* out.push(x) / out.insert(x)
out_add(c, out, x) ==
    IF c = "HashSet" THEN out \cup {x}
    ELSE IF Len(out) < MaxOut THEN Append(out, x) ELSE out

\* one turn of the loop: match data_ref.deserialize()
LoopTurn ==
    LET x == bin_deserialize(bytes, arg[2])
    IN  /\ op = "loop"
        /\ bytes' = x.b
        /\ IF IsOk(x.r)
           THEN /\ op' = "loop"
                /\ written' = out_add(arg[1], written, x.r.val)
                /\ UNCHANGED result
           ELSE /\ op' = "loop_left"
                /\ result' = IF IsErr(x.r) /\ x.r.kind = "UnexpectedEOF" THEN Ok(written)
                              ELSE x.r
                /\ UNCHANGED written
        /\ UNCHANGED <<text, sync, expect, nread, arg, before>>

NextLoop ==
    \/ LoopBegin
    \/ LoopTurn

SpecLoop == InitLoop /\ [][NextLoop]_vars
\* the thread that runs the loop keeps running it
SpecLoopFair == SpecLoop /\ WF_vars(LoopTurn)

\* C28: decoding a Vec or a HashSet from any finite binary buffer ends, whatever the
\* element type is: the loop is left after finitely many turns.
C28_SequenceDecodeTerminates == (op = "loop") ~> (op = "loop_left")

(***************************************************************************)
(* Serializer::deserialize_key_or (the provided method of the Serializer   *)
(* trait): MissingField, and only that kind, becomes the default.          *)
(***************************************************************************)
deserialize_key_or(d, default) ==
    IF IsErr(d.r) /\ d.r.kind = "MissingField" THEN [r |-> Ok(default), b |-> d.b] ELSE d

(***************************************************************************)
(* The binary backend used by key.  A run serializes one struct with       *)
(* serialize_bin and then decodes it, whole or field by field.             *)
(***************************************************************************)
MaxKeyedReads == 1   \* single keyed reads after the struct was written

TestStruct ==
    TStruct(<<Field("name", TString), Field("id", TString), Field("age", TNum("u16"))>>)
TestStruct2 == TStruct(<<Field("one", TestStruct), Field("two", TestStruct)>>)
NameAge == TStruct(<<Field("name", TString), Field("age", TNum("u16"))>>)
AgeName == TStruct(<<Field("age", TNum("u16")), Field("name", TString)>>)

\* field values: "a", and strings and integers whose bytes spell a field name
NameValues == {<<97>>, as_bytes("age"), as_bytes("x")}
IdValues == {<<97>>, as_bytes("two"), as_bytes("name")}
AgeValues == {5, 26980}
TestStructValues == [name : NameValues, id : IdValues, age : AgeValues]
TestStruct2Values == [one : TestStructValues, two : TestStructValues]
NameAgeValues == [name : NameValues, age : AgeValues]

\* HashMap<String, u16> values, as their entries in iteration order
MapKeys == {as_bytes("x"), as_bytes("id")}
MapEntries == {[key |-> k, val |-> v] : k \in MapKeys, v \in AgeValues}
MapValues ==
    {m \in SeqsUpTo(MapEntries, Cardinality(MapKeys)) :
        \A i, j \in 1..Len(m) : i # j => m[i].key # m[j].key}
MapOf(entries) ==
    [k \in {entries[i].key : i \in 1..Len(entries)} |->
        (CHOOSE e \in {entries[i] : i \in 1..Len(entries)} : e.key = k).val]

KeyedTypes == {TBool, TNum("u16"), TString}
DefaultOf(ty) == CASE ty.k = "bool" -> TRUE
                   [] ty.k = "num" -> 7
                   [] ty.k = "string" -> <<100>>
                   [] ty.k = "vec" -> <<>>

InitKeyed == InitBin

\* a value serialized into a new Binary: bs is the buffer after the call
Serialized(v, bs) ==
    /\ op = "new"
    /\ bytes' = bs
    /\ written' = v
    /\ arg' = v
    /\ before' = bytes
    /\ UNCHANGED <<text, sync, expect, nread, result>>

SerializeBin(ty, v) == Serialized(v, bin_serialize(<<>>, ty, v))

\* the buffer written by `from` decoded as ty: d is the result and the buffer left
Deserialized(from, ty, d) ==
    /\ op = from
    /\ bytes' = d.b
    /\ result' = d.r
    /\ arg' = ty
    /\ before' = bytes
    /\ UNCHANGED <<text, written, sync, expect, nread>>

DeserializeWhole(from, ty) == Deserialized(from, ty, bin_deserialize(bytes, ty))

SerializeTestStruct2 ==
    \E v \in TestStruct2Values :
        /\ op' = "serialize_TestStruct2"
        /\ SerializeBin(TestStruct2, v)
DeserializeTestStruct2 ==
    /\ op' = "deserialize_TestStruct2"
    /\ DeserializeWhole("serialize_TestStruct2", TestStruct2)

SerializeNameAge ==
    \E v \in NameAgeValues :
        /\ op' = "serialize_NameAge"
        /\ SerializeBin(NameAge, v)
DeserializeNameAge ==
    /\ op' = "deserialize_NameAge"
    /\ DeserializeWhole("serialize_NameAge", NameAge)
DeserializeAgeName ==
    /\ op' = "deserialize_AgeName"
    /\ DeserializeWhole("serialize_NameAge", AgeName)

\* a struct whose first field was written without the field id and is read with it
OneTwo == TStruct(<<Field("one", NameAge), Field("two", TestStruct)>>)
OneTwoValues == [one : NameAgeValues, two : {[name |-> <<97>>, id |-> <<97>>, age |-> 5]}]

SerializeOneTwo ==
    \E v \in OneTwoValues :
        /\ op' = "serialize_OneTwo"
        /\ SerializeBin(OneTwo, v)

\* deserialize_key::<TestStruct>("one") / ::<NameAge>("one") on that buffer
BinDeserializeNested ==
    \E ty \in {NameAge, TestStruct} :
        LET d == bin_deserialize_key(bytes, "one", ty)
        IN  /\ op = "serialize_OneTwo"
            /\ bytes' = d.b
            /\ result' = d.r
            /\ op' = "deserialize_key"
            /\ arg' = <<"one", ty>>
            /\ before' = bytes
            /\ nread' = nread + 1
            /\ UNCHANGED <<text, written, sync, expect>>

SerializeMap ==
    /\ op = "new"
    /\ \E m \in MapValues :
           /\ op' = "serialize_map"
           /\ Serialized(m, bin_serialize_entries(<<>>, TNum("u16"), 1, m))
DeserializeMap ==
    /\ op' = "deserialize_map"
    /\ Deserialized("serialize_map", TMap(TNum("u16")),
                    bin_deserialize_map(bytes, TNum("u16"), <<>>))

CanReadKey ==
    /\ op \in {"serialize_NameAge", "serialize_TestStruct2", "deserialize_key", "deserialize_key_or"}
    /\ nread < MaxKeyedReads
    /\ ~IsPanic(result)

BinDeserializeKey ==
    \E key \in {"name", "age", "x", "two"}, ty \in KeyedTypes \cup {TestStruct} :
        LET d == bin_deserialize_key(bytes, key, ty)
        IN  /\ CanReadKey
            /\ bytes' = d.b
            /\ result' = d.r
            /\ op' = "deserialize_key"
            /\ arg' = <<key, ty>>
            /\ before' = bytes
            /\ nread' = nread + 1
            /\ UNCHANGED <<text, written, sync, expect>>

BinDeserializeKeyOr ==
    \E key \in {"name", "age", "x"}, ty \in KeyedTypes :
        LET d == deserialize_key_or(bin_deserialize_key(bytes, key, ty), DefaultOf(ty))
        IN  /\ CanReadKey
            /\ bytes' = d.b
            /\ result' = d.r
            /\ op' = "deserialize_key_or"
            /\ arg' = <<key, ty>>
            /\ before' = bytes
            /\ nread' = nread + 1
            /\ UNCHANGED <<text, written, sync, expect>>

NextKeyed ==
    \/ SerializeOneTwo
    \/ BinDeserializeNested
    \/ SerializeMap
    \/ DeserializeMap
    \/ SerializeTestStruct2
    \/ DeserializeTestStruct2
    \/ SerializeNameAge
    \/ DeserializeNameAge
    \/ DeserializeAgeName
    \/ BinDeserializeKey
    \/ BinDeserializeKeyOr

SpecKeyed == InitKeyed /\ [][NextKeyed]_vars

\* C2: a struct of two nested keyed structs (one, two; each name, id, age) written by
\* key into the binary buffer decodes, keys read in declared order, to the original
\* field values, whatever the strings and 16-bit integers are.
C2_NestedKeyedRoundTrip ==
    op = "deserialize_TestStruct2" => result = Ok(written)

C2_Witness ==
    /\ op = "deserialize_TestStruct2" /\ result = Ok(written)
    /\ written.one.name = as_bytes("age") /\ written.one.id = as_bytes("two")
    /\ written.two.age = 26980

\* C3: from a keyed buffer holding {name, age}, decoding age before name yields the
\* same field values as decoding name before age, whatever name and age are.
C3_ReorderedEqualsDeclared ==
    op = "deserialize_AgeName" => result = bin_deserialize(before, NameAge).r

\* C14: a mapping from string keys to values serialized into the binary buffer and
\* decoded as the same mapping type is the original mapping.
C14_MapRoundTrip ==
    op = "deserialize_map" => result = Ok(MapOf(written))

\* the first place in bs where the bytes kb end
KeyEndsAt(bs, kb, e) == e >= Len(kb) /\ SubSeq(bs, e - Len(kb) + 1, e) = kb
FirstKeyEnd(bs, kb) ==
    CHOOSE e \in 1..Len(bs) :
        KeyEndsAt(bs, kb, e) /\ \A e2 \in 1..(e - 1) : ~KeyEndsAt(bs, kb, e2)
\* the number of bytes the encoding of a decoded scalar takes
ValueSize(ty, val) == CASE ty.k = "bool" -> 1
                        [] ty.k = "num" -> SizeOf(ty.n)
                        [] ty.k = "string" -> 4 + Len(val)

\* C24: after a successful keyed read on the binary buffer, the buffer is the bytes
\* that preceded the value followed by the bytes the value's decoder left; for a
\* scalar value exactly the bytes of its encoding are gone and nothing else.
C24_KeyedReadRemovesOnlyTheValue ==
    (op = "deserialize_key" /\ IsOk(result)) =>
        LET at == FirstKeyEnd(before, as_bytes(arg[1]))
            tail == SubSeq(before, at + 1, Len(before))
            left == bin_deserialize(tail, arg[2]).b
            n == Len(tail) - Len(left)
        IN  /\ bytes = SubSeq(before, 1, at) \o left
            /\ arg[2].k # "struct" =>
                    /\ n = ValueSize(arg[2], result.val)
                    /\ left = SubSeq(tail, n + 1, Len(tail))

C24_Witness ==
    /\ op = "deserialize_key" /\ IsOk(result) /\ arg[2] = TString
    /\ FirstKeyEnd(before, as_bytes(arg[1])) > Len(as_bytes(arg[1]))
    /\ Len(bytes) > FirstKeyEnd(before, as_bytes(arg[1]))
    /\ Len(bytes) < Len(before)

\* C29: a keyed read on the binary buffer that returns an error, for a missing key
\* or for a value that does not decode, leaves the buffer as it was before the call.
C29_FailedKeyedReadKeepsBuffer ==
    (op = "deserialize_key" /\ IsErr(result)) => bytes = before

\* C30: in a keyed read of a nested struct, a key the nested struct's decoder looks
\* up is matched only inside the nested struct's own encoded bytes: when the encoding
\* of field one has no id, reading one as a struct with the field id reports
\* MissingField for id, whatever the later sibling field two holds.
C30_NestedLookupStaysInside ==
    (op = "deserialize_key" /\ arg = <<"one", TestStruct>>) =>
        LET own == bin_serialize(<<>>, NameAge, written.one)
        IN  find_key(own, as_bytes("id")).val = <<>>
                => result = nest_set_field(missing_field("id"), "one")

(***************************************************************************)
(* The intermediate text value, TextRepr (src/src/text/mod.rs).  A String  *)
(* and a Table key are sequences of one-character strings; a Table is a    *)
(* function from keys to values; an Array is a sequence.                   *)
(***************************************************************************)
TString_(x) == [t |-> "String", v |-> x]
TInteger(x) == [t |-> "Integer", v |-> x]
TFloat(x) == [t |-> "Float", v |-> x]
TBoolean(x) == [t |-> "Boolean", v |-> x]
TTable(x) == [t |-> "Table", v |-> x]
TArray(x) == [t |-> "Array", v |-> x]
Unit == Ok(<<>>)

is_empty(self) ==
    CASE self.t = "Empty" -> TRUE
      [] self.t = "Table" -> DOMAIN self.v = {}
      [] self.t = "Array" -> self.v = <<>>
      [] OTHER -> FALSE

pull_value(self) ==
    IF self.t = "Array"
    THEN IF self.v = <<>> THEN [r |-> KindErr("UnexpectedEOF"), b |-> self]
         ELSE [r |-> Ok(Head(self.v)), b |-> TArray(Tail(self.v))]
    ELSE [r |-> Ok(self), b |-> EmptyText]

Remove(map, key) == [k \in DOMAIN map \ {key} |-> map[k]]
Insert(map, key, value) == [k \in DOMAIN map \cup {key} |-> IF k = key THEN value ELSE map[k]]

pull_entry(self, key) ==
    IF self.t = "Table"
    THEN IF key \in DOMAIN self.v
         THEN [r |-> Ok(self.v[key]), b |-> TTable(Remove(self.v, key))]
         ELSE [r |-> KindErr("MissingField"), b |-> self]
    ELSE [r |-> KindErr("InvalidType"), b |-> self]

\* a scalar becomes an Array by push_front(value) and then push_front(other)
push_value(self, other) ==
    CASE self.t = "Empty" -> [r |-> Unit, b |-> other]
      [] self.t = "Array" -> [r |-> Unit, b |-> TArray(Append(self.v, other))]
      [] self.t = "Table" -> [r |-> Panic, b |-> self]
      [] OTHER -> [r |-> Unit, b |-> TArray(<<other, self>>)]

push_entry(self, key, other) ==
    CASE self.t = "Empty" -> [r |-> Unit, b |-> TTable(Insert(<<>>, key, other))]
      [] self.t = "Table" -> [r |-> Unit, b |-> TTable(Insert(self.v, key, other))]
      [] OTHER -> [r |-> Panic, b |-> self]

\* `int as $type`: the wrapping cast of an i64 to a narrower integer type
RECURSIVE Pow2(_)
Pow2(n) == IF n = 0 THEN 1 ELSE 2 * Pow2(n - 1)
as_type(T, int) ==
    LET w == 8 * SizeOf(T)
        m == int % Pow2(w)
    IN  IF Signed(T) /\ m >= Pow2(w - 1) THEN m - Pow2(w) ELSE m

\* NumberType::from_i64 of serial_int!: Some(int as $type), for every type
from_i64(T, int) == Ok(<<as_type(T, int)>>)
\* NumberType::to_text of serial_int!: Integer(self as i64)
to_text(T, num) == TInteger(num)

(***************************************************************************)
(* impl PrimitiveSerializer for TextRepr and impl Serializer for TextRepr. *)
(***************************************************************************)
InvalidType == new_kind("InvalidType")

text_deserialize_bool(self) ==
    LET p == pull_value(self)
    IN  IF IsErr(p.r) THEN [r |-> no_field(p.r), b |-> p.b]
        ELSE IF p.r.val.t = "Boolean" THEN [r |-> Ok(p.r.val.v), b |-> p.b]
        ELSE [r |-> InvalidType, b |-> p.b]

text_deserialize_num(self, T) ==
    LET p == pull_value(self)
        x == p.r.val
        n == from_i64(T, x.v).val
    IN  IF IsErr(p.r) THEN [r |-> no_field(p.r), b |-> p.b]
        ELSE IF x.t = "Integer"
             THEN [r |-> IF n = <<>> THEN InvalidType ELSE Ok(n[1]), b |-> p.b]
        ELSE [r |-> InvalidType, b |-> p.b]

text_deserialize_string(self) ==
    LET p == pull_value(self)
    IN  IF IsErr(p.r) THEN [r |-> no_field(p.r), b |-> p.b]
        ELSE IF p.r.val.t = "String" THEN [r |-> Ok(p.r.val.v), b |-> p.b]
        ELSE [r |-> InvalidType, b |-> p.b]

RECURSIVE text_serialize(_, _, _)
RECURSIVE text_serialize_items(_, _, _, _)
RECURSIVE text_serialize_fields(_, _, _, _)
RECURSIVE text_type_deserialize(_, _)
RECURSIVE text_deserialize(_, _)
RECURSIVE text_deserialize_key(_, _, _)
RECURSIVE text_deserialize_vec(_, _, _)
RECURSIVE text_deserialize_fields(_, _, _, _)

\* serialize_owned!: the item serialized into a fresh TextRepr
serialize_owned(ty, item) == text_serialize(EmptyText, ty, item)

\* Serializer::serialize for TextRepr
text_serialize_value(self, ty, item) ==
    LET owner == serialize_owned(ty, item)
    IN  IF IsPanic(owner.r) THEN [r |-> Panic, b |-> self] ELSE push_value(self, owner.b)

\* Serializer::serialize_key for TextRepr
text_serialize_key(self, key, ty, item) ==
    LET owner == serialize_owned(ty, item)
    IN  IF IsPanic(owner.r) THEN [r |-> Panic, b |-> self] ELSE push_entry(self, key, owner.b)

text_serialize_items(self, elem, i, items) ==
    IF i > Len(items) THEN [r |-> Unit, b |-> self]
    ELSE LET s == text_serialize_value(self, elem, items[i])
         IN  IF IsPanic(s.r) THEN s ELSE text_serialize_items(s.b, elem, i + 1, items)

text_serialize_fields(self, fields, i, item) ==
    IF i > Len(fields) THEN [r |-> Unit, b |-> self]
    ELSE LET s == text_serialize_key(self, fields[i].key, fields[i].ty, item[fields[i].key])
         IN  IF IsPanic(s.r) THEN s ELSE text_serialize_fields(s.b, fields, i + 1, item)

\* T::serialize(self, data) on the text value
text_serialize(self, ty, item) ==
    CASE ty.k = "bool" -> push_value(self, TBoolean(item))
      [] ty.k = "num" -> push_value(self, to_text(ty.n, item))
      [] ty.k = "string" -> push_value(self, TString_(item))
      [] ty.k = "vec" -> text_serialize_items(self, ty.elem, 1, item)
      [] ty.k = "struct" -> text_serialize_fields(self, ty.fields, 1, item)

\* Serializer::deserialize for TextRepr: what the nested decoder left is pushed back
text_deserialize(self, ty) ==
    LET p == pull_value(self)
        d == text_type_deserialize(p.r.val, ty)
        back == push_value(p.b, d.b)
    IN  IF IsErr(p.r) THEN [r |-> no_field(p.r), b |-> p.b]
        ELSE IF IsPanic(d.r) THEN [r |-> Panic, b |-> p.b]
        ELSE IF is_empty(d.b) THEN [r |-> d.r, b |-> p.b]
        ELSE IF IsPanic(back.r) THEN back
        ELSE [r |-> d.r, b |-> back.b]

\* deserialize_key without the push_entry of what the nested decoder left
text_deserialize_key_drop(self, key, ty) ==
    LET p == pull_entry(self, key)
        d == text_type_deserialize(p.r.val, ty)
        res == IF IsErr(d.r) THEN nest_set_field(d.r, key) ELSE d.r
    IN  IF IsErr(p.r) THEN [r |-> set_field_kind(p.r, key), b |-> p.b]
        ELSE IF IsPanic(d.r) THEN [r |-> Panic, b |-> p.b]
        ELSE [r |-> res, b |-> p.b]

\* Serializer::deserialize_key for TextRepr
text_deserialize_key(self, key, ty) ==
    LET p == pull_entry(self, key)
        d == text_type_deserialize(p.r.val, ty)
        back == push_entry(p.b, key, d.b)
        res == IF IsErr(d.r) THEN nest_set_field(d.r, key) ELSE d.r
    IN  IF IsErr(p.r) THEN [r |-> set_field_kind(p.r, key), b |-> p.b]
        ELSE IF IsPanic(d.r) THEN [r |-> Panic, b |-> p.b]
        ELSE IF is_empty(d.b) THEN [r |-> res, b |-> p.b]
        ELSE IF IsPanic(back.r) THEN back
        ELSE [r |-> res, b |-> back.b]

\* impl Deserialize for Vec<V>: decode until UnexpectedEOF
text_deserialize_vec(self, elem, out) ==
    LET x == text_deserialize(self, elem)
    IN  IF IsOk(x.r) THEN text_deserialize_vec(x.b, elem, Append(out, x.r.val))
        ELSE IF IsErr(x.r) /\ x.r.kind = "UnexpectedEOF" THEN [r |-> Ok(out), b |-> x.b]
        ELSE x

text_deserialize_fields(self, fields, i, acc) ==
    IF i > Len(fields) THEN [r |-> Ok(acc), b |-> self]
    ELSE LET d == text_deserialize_key(self, fields[i].key, fields[i].ty)
         IN  IF IsOk(d.r)
             THEN text_deserialize_fields(d.b, fields, i + 1, acc @@ (fields[i].key :> d.r.val))
             ELSE d

\* T::deserialize(data) on the text value
text_type_deserialize(self, ty) ==
    CASE ty.k = "bool" -> text_deserialize_bool(self)
      [] ty.k = "num" -> text_deserialize_num(self, ty.n)
      [] ty.k = "string" -> text_deserialize_string(self)
      [] ty.k = "vec" -> text_deserialize_vec(self, ty.elem, <<>>)
      [] ty.k = "struct" -> text_deserialize_fields(self, ty.fields, 1, <<>>)

(***************************************************************************)
(* The text value used through the Serializer contract.  A run starts from *)
(* TextRepr::new() and writes and reads scalars, by position or by key.    *)
(***************************************************************************)
MaxPushes == 3      \* writes into the text value in one run

TextKeys == {<<"x">>, <<"y">>}
TextStrings == {<<"a">>}
TextNumTypes == {"u8", "i8"}
TextNumValues(T) == IF T = "u8" THEN {5} ELSE {-1}
TextReadTypes == {TBool, TNum("u8"), TNum("i8"), TString}
TextVecTypes == {TVec(TNum("u8")), TVec(TNum("i8")), TVec(TString)}
PushOps == {"text_serialize_bool", "text_serialize_num", "text_serialize_string"}

InitText == InitBin

CanUseText == ~IsPanic(result)
CanWriteText == CanUseText /\ nread < MaxPushes

\* PrimitiveSerializer::serialize_bool / serialize_num / serialize_string
TextPush(ty, v) ==
    LET s == text_serialize(text, ty, v)
    IN  /\ CanWriteText
        /\ text' = s.b
        /\ result' = s.r
        /\ arg' = <<ty, v>>
        /\ before' = text
        /\ nread' = nread + 1
        /\ written' = IF sync THEN Append(written, [ty |-> ty, v |-> serialize_owned(ty, v).b])
                      ELSE <<>>
        /\ UNCHANGED <<bytes, sync, expect>>

TextSerializeBool ==
    /\ op' = "text_serialize_bool"
    /\ TextPush(TBool, TRUE)
TextSerializeNum ==
    \E T \in TextNumTypes : \E n \in TextNumValues(T) :
        /\ op' = "text_serialize_num"
        /\ TextPush(TNum(T), n)
TextSerializeString ==
    \E x \in TextStrings :
        /\ op' = "text_serialize_string"
        /\ TextPush(TString, x)

TextSerializeKey ==
    \E key \in TextKeys, T \in TextNumTypes :
        \E n \in TextNumValues(T) :
            LET s == text_serialize_key(text, key, TNum(T), n)
            IN  /\ CanWriteText
                /\ text' = s.b
                /\ result' = s.r
                /\ op' = "text_serialize_key"
                /\ arg' = <<key, TNum(T), n>>
                /\ before' = text
                /\ nread' = nread + 1
                /\ written' = <<>>
                /\ sync' = FALSE
                /\ UNCHANGED <<bytes, expect>>

\* serialize_key(key, item) with a Vec<u8> item
TextVecValues == {<<5, 5>>, <<5, 5, 5>>}
TextSerializeKeyVec ==
    \E key \in TextKeys, item \in TextVecValues :
        LET s == text_serialize_key(text, key, TVec(TNum("u8")), item)
        IN  /\ CanWriteText
            /\ text' = s.b
            /\ result' = s.r
            /\ op' = "text_serialize_key_vec"
            /\ arg' = <<key, TVec(TNum("u8")), item>>
            /\ before' = text
            /\ nread' = nread + 1
            /\ written' = <<>>
            /\ sync' = FALSE
            /\ UNCHANGED <<bytes, expect>>

\* Serializer::try_get_key for TextRepr: keys().next() of a HashMap is any one of
\* its keys; the set of the Options it can return
text_try_get_key(self) ==
    IF self.t = "Table" /\ DOMAIN self.v # {} THEN {<<k>> : k \in DOMAIN self.v} ELSE {<<>>}

TextRead(d, a, e) ==
    /\ CanUseText
    /\ text' = d.b
    /\ result' = d.r
    /\ arg' = a
    /\ before' = text
    /\ written' = <<>>
    /\ sync' = FALSE
    /\ expect' = e
    /\ UNCHANGED <<bytes, nread>>

\* T::deserialize(&mut text) for a scalar T
TextDeserializeScalar ==
    \E ty \in TextReadTypes :
        /\ op' = "text_deserialize_" \o ty.k
        /\ TextRead(text_type_deserialize(text, ty), ty, None)

\* Vec::<V>::deserialize(&mut text)
TextDeserializeVec ==
    \E ty \in TextVecTypes :
        /\ op' = "text_deserialize_vec"
        /\ TextRead(text_type_deserialize(text, ty), ty,
                 IF sync /\ \A i \in 1..Len(written) : written[i].ty = ty.elem
                 THEN Ok(written) ELSE None)

TextDeserializeKey ==
    \E key \in TextKeys, ty \in TextReadTypes \cup TextVecTypes :
        /\ op' = "text_deserialize_key"
        /\ TextRead(text_deserialize_key(text, key, ty), <<key, ty>>, None)

TextDeserializeKeyOr ==
    \E key \in TextKeys, ty \in TextReadTypes \cup TextVecTypes :
        /\ op' = "text_deserialize_key_or"
        /\ TextRead(deserialize_key_or(text_deserialize_key(text, key, ty), DefaultOf(ty)),
                 <<key, ty>>, None)

TextTryGetKey ==
    \E got \in text_try_get_key(text) :
        /\ op' = "text_try_get_key"
        /\ TextRead([r |-> IF got = <<>> THEN None ELSE Ok(got[1]), b |-> text], <<>>, None)

\* TextRepr::pull_value and TextRepr::pull_entry called directly (both are pub)
PullValue ==
    /\ op' = "pull_value"
    /\ TextRead(pull_value(text), <<>>, None)

PullEntry ==
    \E key \in TextKeys :
        /\ op' = "pull_entry"
        /\ TextRead(pull_entry(text, key), key, None)

NextText ==
    \/ TextSerializeKeyVec
    \/ TextTryGetKey
    \/ PullValue
    \/ PullEntry
    \/ TextSerializeBool
    \/ TextSerializeNum
    \/ TextSerializeString
    \/ TextSerializeKey
    \/ TextDeserializeScalar
    \/ TextDeserializeVec
    \/ TextDeserializeKey
    \/ TextDeserializeKeyOr

SpecText == InitText /\ [][NextText]_vars

(***************************************************************************)
(* A HashMap<String, V> decoded from the text value (src/src/common.rs,    *)
(* impl Deserialize for HashMap).  A run serializes a map into a new        *)
(* TextRepr and decodes a map from it, one action per turn of the           *)
(* `while let Some(key) = data.try_get_key()` loop: written is the map      *)
(* `out`, expect the keys try_get_key has returned so far, nread the number *)
(* of times the loop body has run, before the value the decode began with.  *)
(***************************************************************************)
\* impl Serialize for HashMap<K, V>: one serialize_key per entry, the entries in
\* the map's iteration order
RECURSIVE text_serialize_entries(_, _, _, _)
text_serialize_entries(self, val, i, entries) ==
    IF i > Len(entries) THEN [r |-> Unit, b |-> self]
    ELSE LET s == text_serialize_key(self, entries[i].key, val, entries[i].val)
         IN  IF IsPanic(s.r) THEN s ELSE text_serialize_entries(s.b, val, i + 1, entries)

TextMapValues(val) == IF val.k = "num" THEN {5} ELSE {<<5>>} \cup TextVecValues
\* the maps of one or two entries with values of type val, as their entries
TextMaps(val) ==
    {<<[key |-> k, val |-> v]>> : k \in TextKeys, v \in TextMapValues(val)}
    \cup {<<[key |-> <<"x">>, val |-> v], [key |-> <<"y">>, val |-> w]>> :
            v \in TextMapValues(val), w \in TextMapValues(val)}
TextMapTypes == {TNum("u8"), TVec(TNum("u8"))}

InitTextMap == InitBin

TextSerializeMap ==
    /\ op = "new"
    /\ \E val \in TextMapTypes :
         \E m \in TextMaps(val) :
           LET s == text_serialize_entries(text, val, 1, m)
           IN  /\ op' = "text_serialize_map"
               /\ text' = s.b
               /\ result' = s.r
               /\ arg' = <<val, m>>
               /\ before' = text
               /\ UNCHANGED <<bytes, written, sync, expect, nread>>

\* HashMap::<String, V>::deserialize is entered: `let mut out = Self::new()`
TextMapBegin ==
    /\ op = "text_serialize_map"
    /\ \E val \in TextMapTypes \cup {TString} :
           /\ op' = "map_loop"
           /\ arg' = <<val>>
           /\ written' = <<>>
           /\ expect' = <<>>
           /\ nread' = 0
           /\ before' = text
           /\ result' = None
           /\ sync' = FALSE
           /\ UNCHANGED <<bytes, text>>

\* one turn of the loop: try_get_key, then deserialize_key(key).set_field(key)?
\* and out.insert; the loop is left with Ok(out) when there is no key
TextMapTurn ==
    /\ op = "map_loop"
    /\ \E got \in text_try_get_key(text) :
         LET deser == text_deserialize_key(text, got[1], arg[1])
         IN  IF got = <<>>
             THEN /\ op' = "map_done"
                  /\ result' = Ok(written)
                  /\ UNCHANGED <<text, written, expect, nread>>
             ELSE /\ text' = deser.b
                  /\ expect' = Append(expect, got[1])
                  /\ nread' = nread + 1
                  /\ IF IsOk(deser.r)
                     THEN /\ op' = "map_loop"
                          /\ written' = Insert(written, got[1], deser.r.val)
                          /\ result' = None
                     ELSE /\ op' = "map_done"
                          /\ result' = set_field(deser.r, got[1])
                          /\ UNCHANGED written
    /\ UNCHANGED <<bytes, sync, arg, before>>

NextTextMap ==
    \/ TextSerializeMap
    \/ TextMapBegin
    \/ TextMapTurn

SpecTextMap == InitTextMap /\ [][NextTextMap]_vars

\* C27: decoding a map from a text Table with N entries runs the loop body at most N
\* times, no key is decoded twice, and on success the Table is left with no entries.
C27_MapLoopVisitsEachKeyOnce ==
    op \in {"map_loop", "map_done"} =>
        /\ nread <= Cardinality(DOMAIN before.v)
        /\ \A i, j \in 1..Len(expect) : expect[i] = expect[j] => i = j
        /\ (op = "map_done" /\ IsOk(result)) => is_empty(text)

HasEntry(self, key) == self.t = "Table" /\ key \in DOMAIN self.v

\* C4: deserialize_key_or(k, d) returns the default d whenever the backend holds no
\* entry named k (whatever variant the text value is, Empty included), and returns
\* the underlying error, never d, when the entry is present but fails to decode.
C4_DefaultWhenNoEntry ==
    op = "text_deserialize_key_or" =>
        /\ ~HasEntry(before, arg[1]) => result = Ok(DefaultOf(arg[2]))
        /\ (HasEntry(before, arg[1]) /\ IsErr(text_type_deserialize(before.v[arg[1]], arg[2]).r))
              => IsErr(result)

\* C6: a text value into which N scalar elements were pushed (N = 0: Empty; N = 1: the
\* scalar itself) decodes as a Vec of that element type to exactly N elements, no error.
C6_TextVecExactlyN ==
    (op = "text_deserialize_vec" /\ IsOk(expect))
        => (IsOk(result) /\ Len(result.val) = Len(expect.val))

\* C9: on the text value, decoding a negative Integer into an unsigned integer type
\* returns an InvalidType error, never a wrapped value.
C9_NegativeToUnsignedRejected ==
    (/\ op = "text_deserialize_num"
     /\ ~Signed(arg.n)
     /\ IsOk(pull_value(before).r)
     /\ pull_value(before).r.val.t = "Integer"
     /\ pull_value(before).r.val.v < 0)
        => (IsErr(result) /\ result.kind = "InvalidType")

\* C10: starting from Empty, after one unnamed push of a scalar v1 the value is v1,
\* and after unnamed pushes of v1..vn (n >= 2) it is the Array [v1, ..., vn].
C10_PushKeepsInsertionOrder ==
    (sync /\ op \in PushOps) =>
        /\ Len(written) = 1 => text = written[1].v
        /\ Len(written) >= 2 => text = TArray([i \in 1..Len(written) |-> written[i].v])

(***************************************************************************)
(* Text parsing (src/src/text/mod.rs, toml.rs, mlist.rs, json.rs).  Text   *)
(* is a sequence of one-character strings; the characters of the model are *)
(* ASCII, so byte offsets and character offsets coincide.                  *)
\* C11: pull_entry(name) fails with MissingField when the value is a Table without
\* an entry under that name and also when the value is not a Table at all.
C11_PullEntryMissingField ==
    (op = "pull_entry" /\ ~HasEntry(before, arg))
        => (IsErr(result) /\ result.kind = "MissingField")

\* C12: pull_value on a Table is an InvalidType error; the Table is not handed out.
C12_PullValueFromTable ==
    (op = "pull_value" /\ before.t = "Table")
        => (IsErr(result) /\ result.kind = "InvalidType")

\* what a decoder of a scalar type leaves of a value: nothing of a scalar, the
\* elements after the first of an Array
ScalarTypes == {"bool", "num", "string"}
RestAfterScalar(value) ==
    CASE value.t = "Array" /\ value.v # <<>> -> TArray(Tail(value.v))
      [] value.t = "Array" -> value
      [] OTHER -> EmptyText

\* C22: deserialize_key(k) on a text Table leaves every entry under another name
\* unchanged; what the nested decoder did not consume of the value is stored again
\* under k, and k is absent when the whole value was consumed, whether the nested
\* decode succeeded or failed.
C22_KeyedReadKeepsTheRest ==
    (op = "text_deserialize_key" /\ HasEntry(before, arg[1])) =>
        LET k == arg[1]
            left == text_type_deserialize(before.v[k], arg[2]).b
        IN  /\ text.t = "Table"
            /\ DOMAIN text.v \ {k} = DOMAIN before.v \ {k}
            /\ \A j \in DOMAIN before.v \ {k} : text.v[j] = before.v[j]
            /\ IF is_empty(left) THEN k \notin DOMAIN text.v
               ELSE k \in DOMAIN text.v /\ text.v[k] = left
            /\ arg[2].k \in ScalarTypes => left = RestAfterScalar(before.v[k])
C22_Witness ==
    /\ op = "text_deserialize_key"
    /\ HasEntry(before, arg[1])
    /\ Cardinality(DOMAIN before.v) = 2
    /\ before.v[arg[1]].t = "Array"
    /\ IsOk(result)
    /\ HasEntry(text, arg[1])
    /\ text.v[arg[1]] = TArray(Tail(before.v[arg[1]].v))
    /\ text.v[arg[1]].v # <<>>

(***************************************************************************)
Whitespace == {" ", "\n", "\t", "\r"}
Digits == <<"0", "1", "2", "3", "4", "5", "6", "7", "8", "9">>
IsDigit(c) == \E i \in 1..10 : Digits[i] = c
DigitVal(c) == (CHOOSE i \in 1..10 : Digits[i] = c) - 1
AllDigits(str) == \A i \in 1..Len(str) : IsDigit(str[i])
Chars(str) == {str[i] : i \in 1..Len(str)}
Drop(str, n) == SubSeq(str, n + 1, Len(str))

\* first_symbol: pops characters up to and including the first that is not
\* whitespace; c is an Option
first_symbol(data) ==
    LET idx == {i \in 1..Len(data) : data[i] \notin Whitespace}
        at == CHOOSE i \in idx : \A j \in idx : i <= j
    IN  IF idx = {} THEN [c |-> <<>>, rest |-> <<>>]
        ELSE [c |-> <<data[at]>>, rest |-> Drop(data, at)]

\* str::trim
trim(str) ==
    LET idx == {i \in 1..Len(str) : str[i] \notin Whitespace}
        lo == CHOOSE i \in idx : \A j \in idx : i <= j
        hi == CHOOSE i \in idx : \A j \in idx : i >= j
    IN  IF idx = {} THEN <<>> ELSE SubSeq(str, lo, hi)

starts_with(str, c) == str # <<>> /\ str[1] = c
ends_with(str, c) == str # <<>> /\ str[Len(str)] = c

RECURSIVE DecimalValue(_)
DecimalValue(str) ==
    IF str = <<>> THEN 0
    ELSE 10 * DecimalValue(SubSeq(str, 1, Len(str) - 1)) + DigitVal(str[Len(str)])

Unsigned(str) == IF str # <<>> /\ str[1] \in {"+", "-"} THEN Tail(str) ELSE str
SignOf(str) == IF str # <<>> /\ str[1] = "-" THEN -1 ELSE 1

\* str::parse::<bool>, ::<i64>, ::<f64>, each an Option
parse_bool(str) ==
    IF str = <<"t", "r", "u", "e">> THEN <<TRUE>>
    ELSE IF str = <<"f", "a", "l", "s", "e">> THEN <<FALSE>>
    ELSE <<>>

parse_i64(str) ==
    LET ds == Unsigned(str)
    IN  IF ds # <<>> /\ AllDigits(ds) THEN <<SignOf(str) * DecimalValue(ds)>> ELSE <<>>

\* a float is kept as its sign, its mantissa digits (integer part, fraction part)
\* and its exponent, or as the name of a special value
parse_f64(str) ==
    LET body == Unsigned(str)
        exps == {i \in 1..Len(body) : body[i] \in {"e", "E"}}
        epos == IF exps = {} THEN Len(body) + 1 ELSE CHOOSE i \in exps : \A j \in exps : i <= j
        mant == SubSeq(body, 1, epos - 1)
        exp == SubSeq(body, epos + 1, Len(body))
        dots == {i \in 1..Len(mant) : mant[i] = "."}
        dpos == IF dots = {} THEN Len(mant) + 1 ELSE CHOOSE i \in dots : \A j \in dots : i <= j
        int == SubSeq(mant, 1, dpos - 1)
        frac == SubSeq(mant, dpos + 1, Len(mant))
        special == body \in {<<"i", "n", "f">>, <<"n", "a", "n">>,
                             <<"i", "n", "f", "i", "n", "i", "t", "y">>}
        number == /\ AllDigits(int) /\ AllDigits(frac) /\ int \o frac # <<>>
                  /\ exps = {} \/ (Unsigned(exp) # <<>> /\ AllDigits(Unsigned(exp)))
    IN  IF special THEN <<[sign |-> SignOf(str), special |-> body]>>
        ELSE IF number
        THEN <<[sign |-> SignOf(str), int |-> int, frac |-> frac,
                exp |-> IF exps = {} THEN 0 ELSE SignOf(exp) * DecimalValue(Unsigned(exp))]>>
        ELSE <<>>

\* String::drain(1..len - 1) panics when the range is 1..0
from_str_value(data) ==
    IF data = <<>> THEN new_kind("UnexpectedEOF")
    ELSE IF starts_with(data, "\"")
    THEN IF ~ends_with(data, "\"") THEN new_kind("InvalidFormat")
         ELSE IF Len(data) = 1 THEN Panic
         ELSE Ok(TString_(SubSeq(data, 2, Len(data) - 1)))
    ELSE IF ends_with(data, "\"") THEN new_kind("InvalidFormat")
    ELSE IF parse_bool(data) # <<>> THEN Ok(TBoolean(parse_bool(data)[1]))
    ELSE IF parse_i64(data) # <<>> THEN Ok(TInteger(parse_i64(data)[1]))
    ELSE IF parse_f64(data) # <<>> THEN Ok(TFloat(parse_f64(data)[1]))
    ELSE InvalidType

\* push_entry_path: the path is reversed, its last element is the outermost table
RECURSIVE push_entry_path(_, _, _)
push_entry_path(self, path, other) ==
    LET field_name == path[Len(path)]
        inner == SubSeq(path, 1, Len(path) - 1)
        table == IF self.t = "Empty" THEN <<>> ELSE self.v
        child == IF field_name \in DOMAIN table THEN table[field_name] ELSE TTable(<<>>)
        sub == push_entry_path(child, inner, other)
    IN  IF path = <<>> THEN [r |-> Panic, b |-> self]
        ELSE IF Len(path) = 1 THEN push_entry(self, field_name, other)
        ELSE IF self.t \notin {"Empty", "Table"} THEN [r |-> Panic, b |-> self]
        ELSE [r |-> sub.r, b |-> TTable(Insert(table, field_name, sub.b))]

\* delimit_comma_split: the separating comma stays at the front of the next item,
\* and the item after the last separator is never pushed
RECURSIVE delimit_comma_split_from(_, _, _, _)
delimit_comma_split_from(data, in_string, item, out) ==
    IF data = <<>> THEN out
    ELSE LET c == Head(data)
         IN  IF c = "\"" THEN delimit_comma_split_from(Tail(data), ~in_string, Append(item, c), out)
             ELSE IF ~in_string /\ c = ","
             THEN delimit_comma_split_from(Tail(data), in_string, <<c>>, Append(out, item))
             ELSE delimit_comma_split_from(Tail(data), in_string, Append(item, c), out)

delimit_comma_split(data) == delimit_comma_split_from(data, FALSE, <<>>, <<>>)

FirstIndex(str, c) ==
    LET idx == {i \in 1..Len(str) : str[i] = c}
    IN  IF idx = {} THEN 0 ELSE CHOOSE i \in idx : \A j \in idx : i <= j

Reverse(seq) == [i \in 1..Len(seq) |-> seq[Len(seq) + 1 - i]]

RECURSIVE SplitOn(_, _)
SplitOn(str, c) ==
    LET at == FirstIndex(str, c)
    IN  IF at = 0 THEN <<str>> ELSE <<SubSeq(str, 1, at - 1)>> \o SplitOn(Drop(str, at), c)

OuterFieldName ==
    <<"O", "u", "t", "e", "r", " ", "F", "i", "e", "l", "d", " ", "N", "a", "m", "e">>

\* the section header loop of from_toml and from_mlist, entered after the '[':
\* characters are popped up to the first ']', wherever it is
scan_header(data) ==
    LET close == FirstIndex(data, "]")
        segments == SplitOn(SubSeq(data, 1, close - 1), ".")
    IN  IF close = 0
        THEN [r |-> set_field_kind(KindErr("UnexpectedEOF"), OuterFieldName), rest |-> <<>>]
        ELSE IF segments[Len(segments)] = <<>>
        THEN [r |-> new_kind("InvalidFormat"), rest |-> Drop(data, close)]
        ELSE [r |-> Ok(segments), rest |-> Drop(data, close)]

\* the characters up to the next line feed, which is consumed
take_line(data) ==
    LET nl == FirstIndex(data, "\n")
    IN  IF nl = 0 THEN [line |-> data, rest |-> <<>>]
        ELSE [line |-> SubSeq(data, 1, nl - 1), rest |-> Drop(data, nl)]

RECURSIVE from_str_values(_, _, _)
from_str_values(items, i, arr) ==
    IF i > Len(items) THEN Ok(TArray(arr))
    ELSE LET x == from_str_value(trim(items[i]))
         IN  IF IsOk(x) THEN from_str_values(items, i + 1, Append(arr, x.val)) ELSE x

\* the value of a `key = value` line of from_toml; value.get(1..len - 1).unwrap()
\* panics when the value is the single character '['
toml_value(value) ==
    IF starts_with(value, "[")
    THEN IF Len(value) = 1 THEN Panic
         ELSE from_str_values(delimit_comma_split(SubSeq(value, 2, Len(value) - 1)), 1, <<>>)
    ELSE from_str_value(value)

RECURSIVE from_toml_loop(_, _, _)
from_toml_loop(out, data, outer_path) ==
    LET fs == first_symbol(data)
        header == scan_header(fs.rest)
        eq == FirstIndex(fs.rest, "=")
        raw_key == fs.c \o SubSeq(fs.rest, 1, eq - 1)
        ln == take_line(Drop(fs.rest, eq))
        new_path == <<trim(raw_key)>> \o Reverse(outer_path)
        value == toml_value(trim(ln.line))
        pushed == push_entry_path(out, new_path, value.val)
    IN  IF fs.c = <<>> THEN Ok(out)
        ELSE IF fs.c[1] = "["
        THEN IF IsErr(header.r) THEN header.r
             ELSE from_toml_loop(out, header.rest, header.r.val)
        ELSE IF eq = 0 THEN set_field_kind(KindErr("UnexpectedEOF"), fs.c \o fs.rest)
        ELSE IF ~IsOk(value) THEN value
        ELSE IF IsPanic(pushed.r) THEN Panic
        ELSE from_toml_loop(pushed.b, ln.rest, outer_path)

from_toml(data) == from_toml_loop(EmptyText, data, <<>>)

\* from_mlist: the values collected under a header are pushed as one Array when the
\* next header starts and at the end of the input
mlist_flush(out, outer_path, values) ==
    IF values = <<>> THEN [r |-> Unit, b |-> out]
    ELSE push_entry_path(out, Reverse(outer_path), TArray(values))

RECURSIVE from_mlist_loop(_, _, _, _)
from_mlist_loop(out, data, outer_path, values) ==
    LET fs == first_symbol(data)
        flushed == mlist_flush(out, outer_path, values)
        header == scan_header(fs.rest)
        ln == take_line(fs.rest)
        value == from_str_value(trim(fs.c \o ln.line))
    IN  IF fs.c = <<>> THEN (IF IsPanic(flushed.r) THEN Panic ELSE Ok(flushed.b))
        ELSE IF fs.c[1] = "["
        THEN IF IsPanic(flushed.r) THEN Panic
             ELSE IF IsErr(header.r) THEN header.r
             ELSE from_mlist_loop(flushed.b, header.rest, header.r.val, <<>>)
        ELSE IF ~IsOk(value) THEN value
        ELSE from_mlist_loop(out, ln.rest, outer_path, Append(values, value.val))

from_mlist(data) == from_mlist_loop(EmptyText, data, <<>>, <<>>)

\* split_layer: Ok(segments), or Err for a closing bracket with nothing open
RECURSIVE split_layer_from(_, _, _, _, _)
split_layer_from(data, curly_count, square_count, buffer, out) ==
    IF data = <<>>
    THEN Ok(IF buffer # <<>> THEN Append(out, trim(buffer)) ELSE out)
    ELSE LET c == Head(data)
             rest == Tail(data)
         IN  CASE c = "{" ->
                    split_layer_from(rest, curly_count + 1, square_count,
                        IF curly_count + 1 = 1 THEN buffer ELSE Append(buffer, c), out)
               [] c = "}" ->
                    IF curly_count = 0 THEN KindErr("InvalidFormat")
                    ELSE split_layer_from(rest, curly_count - 1, square_count,
                            IF curly_count - 1 = 0 THEN buffer ELSE Append(buffer, c), out)
               [] c = "[" ->
                    split_layer_from(rest, curly_count, square_count + 1,
                        IF square_count + 1 = 1 THEN buffer ELSE Append(buffer, c), out)
               [] c = "]" ->
                    IF square_count = 0 THEN KindErr("InvalidFormat")
                    ELSE split_layer_from(rest, curly_count, square_count - 1,
                            IF square_count - 1 = 0 THEN buffer ELSE Append(buffer, c), out)
               [] c = "," /\ ~(square_count > 1 \/ curly_count > 1) ->
                    split_layer_from(rest, curly_count, square_count, <<>>,
                        Append(out, trim(buffer)))
               [] OTHER ->
                    split_layer_from(rest, curly_count, square_count, Append(buffer, c), out)

split_layer(data) == split_layer_from(trim(data), 0, 0, <<>>, <<>>)

RECURSIVE from_json(_)
RECURSIVE from_json_object(_, _, _)
RECURSIVE from_json_array(_, _, _)

from_json_object(out, segments, i) ==
    LET segment == segments[i]
        idx == FirstIndex(segment, ":")
        key == trim(SubSeq(segment, 1, idx - 1))
        value == trim(Drop(segment, idx))
        item == from_json(value)
        pushed == push_entry(out, key, item.val)
    IN  IF i > Len(segments) THEN Ok(out)
        ELSE IF segment = <<>> THEN from_json_object(out, segments, i + 1)
        ELSE IF idx = 0 THEN set_field_kind(KindErr("InvalidFormat"), segment)
        ELSE IF key = <<>> THEN new_kind("InvalidFormat")
        ELSE IF value = <<>> THEN set_field_kind(KindErr("InvalidFormat"), key)
        ELSE IF ~IsOk(item) THEN item
        ELSE IF IsPanic(pushed.r) THEN Panic
        ELSE from_json_object(pushed.b, segments, i + 1)

from_json_array(out, segments, i) ==
    LET segment == trim(segments[i])
        item == from_json(segment)
        pushed == push_value(out, item.val)
    IN  IF i > Len(segments) THEN Ok(out)
        ELSE IF segment = <<>> THEN new_kind("InvalidFormat")
        ELSE IF ~IsOk(item) THEN item
        ELSE IF IsPanic(pushed.r) THEN Panic
        ELSE from_json_array(pushed.b, segments, i + 1)

from_json(text_in) ==
    LET data == trim(text_in)
        segments == split_layer(data)
    IN  IF data = <<>> THEN new_kind("UnexpectedEOF")
        ELSE IF data[1] = "{"
        THEN IF data[Len(data)] # "}" THEN new_kind("InvalidFormat")
             ELSE IF IsErr(segments) THEN no_field(segments)
             ELSE from_json_object(EmptyText, segments.val, 1)
        ELSE IF data[1] = "["
        THEN IF IsErr(segments) THEN no_field(segments)
             ELSE from_json_array(EmptyText, segments.val, 1)
        ELSE from_str_value(data)

(***************************************************************************)
(* The text parsers applied to external input.                             *)
(***************************************************************************)
RECURSIVE Join(_, _)
Join(strs, sep) ==
    IF strs = <<>> THEN <<>>
    ELSE IF Len(strs) = 1 THEN strs[1]
    ELSE strs[1] \o sep \o Join(Tail(strs), sep)

MaxInput == 3       \* characters of an enumerated input

TomlChars == {"a", "=", "[", "]", "\"", "1", "\n", ",", "."}
JsonChars == {"a", ":", "{", "}", "[", "]", "\"", "1", ","}

TomlSamples == {
    <<"a", "=", "1", "\n", "[", "a", "]", "\n", "b", "=", "2">>,
    <<"[", "o", ".", "p", "]", "\n", "i", " ", "=", " ", "t", "r", "u", "e", "\n">>,
    <<"k", "=", "[", "1", ",", "\"", "a", ",", "b", "\"", ",", "2", "]">>,
    <<"[", "a", "\n", "]", "\n", "b", "=", "1">>,
    <<"[", "a", "\n", "b", "=", "1">> }
JsonSamples == {
    <<"[", "{", "{", "a", ":", "1", "}", "}", ",", "2", "]">>,
    <<"{", "k", "e", "y", ":", " ", "}">>,
    <<"{", "a", ":", " ", "[", "1", ",", " ", "2", "]", "}">> }
\* objects with one entry whose value is empty, alone or after a well-formed entry
WellFormedEntries == {<<"b", ":", "1">>, <<"a", ":", " ", "[", "1", ",", " ", "2", "]">>}
EmptyValueKeys == {<<"k", "e", "y">>, <<"c">>}
JsonObject(entries) == <<"{">> \o Join(entries, <<",", " ">>) \o <<"}">>
EmptyValueObjects ==
    {JsonObject(Append(pre, key \o <<":", " ">>)) :
        pre \in SeqsUpTo(WellFormedEntries, 1), key \in EmptyValueKeys}

MlistSamples == {
    <<"[", "a", ".", "b", "]", "\n", "1", "\n", "\"", "x", "\"", "\n", "[", "c", "]", "\n", "2">> }

InitParse == InitBin

Parse(input, r) ==
    /\ op = "new"
    /\ arg' = input
    /\ result' = r
    /\ text' = IF IsOk(result') THEN result'.val ELSE text
    /\ before' = text
    /\ UNCHANGED <<bytes, written, sync, expect, nread>>

FromToml ==
    /\ op = "new"
    /\ \E input \in SeqsUpTo(TomlChars, MaxInput) \cup TomlSamples :
           /\ op' = "from_toml"
           /\ Parse(input, from_toml(input))
FromMlist ==
    /\ op = "new"
    /\ \E input \in SeqsUpTo(TomlChars, MaxInput) \cup MlistSamples :
           /\ op' = "from_mlist"
           /\ Parse(input, from_mlist(input))
FromJson ==
    /\ op = "new"
    /\ \E input \in SeqsUpTo(JsonChars, MaxInput) \cup JsonSamples \cup EmptyValueObjects :
           /\ op' = "from_json"
           /\ Parse(input, from_json(input))

\* a helper function applied to an input: only its return value is kept
Applied(input, r) ==
    /\ arg' = input
    /\ result' = r
    /\ before' = text
    /\ UNCHANGED <<text, bytes, written, sync, expect, nread>>

SplitChars == {"a", ",", "\""}
SplitSamples == {
    <<"1", ",", " ", "2", ",", " ", "3">>,
    <<"\"", "a", ",", "b", "\"", ",", " ", "1">> }

DelimitCommaSplit ==
    /\ op = "new"
    /\ \E input \in SeqsUpTo(SplitChars, MaxInput) \cup SplitSamples :
           /\ op' = "delimit_comma_split"
           /\ Applied(input, Ok(delimit_comma_split(input)))

LayerSamples == {
    <<"{", "a", ":", " ", "[", "1", ",", " ", "2", "]", "}">>,
    <<"[", "{", "a", ":", " ", "1", ",", " ", "b", ":", " ", "2", "}", "]">>,
    <<"[", "[", "1", ",", " ", "2", "]", ",", " ", "3", "]">>,
    <<"{", "a", ":", " ", "{", "b", ":", " ", "1", ",", " ", "c", ":", " ", "2", "}", "}">>,
    <<"{", "a", ":", " ", "1", ",", " ", "b", ":", " ", "2", "}">> }

SplitLayer ==
    /\ op = "new"
    /\ \E input \in SeqsUpTo(JsonChars, MaxInput) \cup LayerSamples :
           /\ op' = "split_layer"
           /\ Applied(input, split_layer(input))

NextParse ==
    \/ DelimitCommaSplit
    \/ SplitLayer
    \/ FromToml
    \/ FromMlist
    \/ FromJson

SpecParse == InitParse /\ [][NextParse]_vars

\* C7: from_toml, from_json and from_mlist return a value or an error value for every
\* input string; no input makes any of them panic.
C7_ParsersNeverPanic ==
    op \in {"from_toml", "from_mlist", "from_json"} => ~IsPanic(result)

\* C17: from_json on an object that has an entry with a non-empty key and an empty
\* value ("{key: }"), alone or after well-formed entries, returns InvalidFormat whose
\* field is that entry's key.
C17_EmptyValueNamesKey ==
    op = "from_json" =>
        \A pre \in SeqsUpTo(WellFormedEntries, 1), key \in EmptyValueKeys :
            arg = JsonObject(Append(pre, key \o <<":", " ">>))
                => result = set_field_kind(KindErr("InvalidFormat"), key)

\* the first line of the input that is not blank opens a section header with '['
\* and has no ']' on it
HeaderUnclosed(input) ==
    LET symbols == {i \in 1..Len(input) : input[i] \notin Whitespace}
        first == CHOOSE i \in symbols : \A j \in symbols : i <= j
        ends == {i \in first..Len(input) : input[i] = "\n"}
        last == IF ends = {} THEN Len(input) ELSE CHOOSE i \in ends : \A j \in ends : i <= j
    IN  /\ symbols # {}
        /\ input[first] = "["
        /\ \A i \in first..last : input[i] # "]"

\* C18: from_toml on an input in which a section header is opened with '[' and its
\* line has no closing ']' returns UnexpectedEOF, whatever follows on later lines.
C18_UnclosedHeaderIsEOF ==
    (op = "from_toml" /\ HeaderUnclosed(arg))
        => (IsErr(result) /\ result.kind = "UnexpectedEOF")

\* the first line of the input that is not blank is a key line (it does not open a
\* header) in which the '=' is missing, or stands first (the key is empty), or has
\* only blanks after it (the value is empty)
MalformedKeyLine(input) ==
    LET symbols == {i \in 1..Len(input) : input[i] \notin Whitespace}
        first == CHOOSE i \in symbols : \A j \in symbols : i <= j
        ends == {i \in first..Len(input) : input[i] = "\n"}
        last == IF ends = {} THEN Len(input) ELSE (CHOOSE i \in ends : \A j \in ends : i <= j) - 1
        eqs == {i \in first..last : input[i] = "="}
        eq == CHOOSE i \in eqs : \A j \in eqs : i <= j
    IN  /\ symbols # {}
        /\ input[first] # "["
        /\ \/ eqs = {}
           \/ eq = first
           \/ \A i \in (eq + 1)..last : input[i] \in Whitespace

\* C19: from_toml returns InvalidFormat for a key line that contains no '=', for a
\* line whose key is empty, and for a line whose value is empty.
C19_MalformedLineIsInvalidFormat ==
    (op = "from_toml" /\ MalformedKeyLine(arg))
        => (IsErr(result) /\ result.kind = "InvalidFormat")

\* the curly or the square brackets of the input, outside quoted strings, are
\* unbalanced: a closing one with none open, or one left open at the end
RECURSIVE UnbalancedFrom(_, _, _, _)
UnbalancedFrom(input, curly, square, in_string) ==
    IF input = <<>> THEN curly # 0 \/ square # 0
    ELSE LET c == Head(input)
             rest == Tail(input)
         IN  CASE c = "\"" -> UnbalancedFrom(rest, curly, square, ~in_string)
               [] in_string -> UnbalancedFrom(rest, curly, square, in_string)
               [] c = "{" -> UnbalancedFrom(rest, curly + 1, square, in_string)
               [] c = "[" -> UnbalancedFrom(rest, curly, square + 1, in_string)
               [] c = "}" -> curly = 0 \/ UnbalancedFrom(rest, curly - 1, square, in_string)
               [] c = "]" -> square = 0 \/ UnbalancedFrom(rest, curly, square - 1, in_string)
               [] OTHER -> UnbalancedFrom(rest, curly, square, in_string)
Unbalanced(input) == UnbalancedFrom(input, 0, 0, FALSE)

\* C20: from_json returns InvalidFormat for every input whose curly or square
\* brackets are unbalanced, at any nesting depth.
C20_UnbalancedIsInvalidFormat ==
    (op = "from_json" /\ Unbalanced(arg))
        => (IsErr(result) /\ result.kind = "InvalidFormat")

\* the positions of the commas of str that are outside double quotes
Quotes(str, i) == Cardinality({j \in 1..(i - 1) : str[j] = "\""})
SeparatorCommas(str) == {i \in 1..Len(str) : str[i] = "," /\ Quotes(str, i) % 2 = 0}

\* C25: delimit_comma_split on an input with k commas outside double quotes returns
\* k + 1 items, no item contains a separator comma, and the items joined by ','
\* give back the input.
C25_CommaSplitPieces ==
    op = "delimit_comma_split" =>
        LET items == result.val
        IN  /\ Len(items) = Cardinality(SeparatorCommas(arg)) + 1
            /\ \A i \in 1..Len(items) : SeparatorCommas(items[i]) = {}
            /\ Join(items, <<",">>) = arg

\* brackets of either kind open before position i of str, minus those closed
Opened(str, i) == Cardinality({j \in 1..(i - 1) : str[j] \in {"{", "["}})
Closed(str, i) == Cardinality({j \in 1..(i - 1) : str[j] \in {"}", "]"}})
DepthAt(str, i) == Opened(str, i) - Closed(str, i)
\* every bracket of str closes the bracket of its own kind opened last
RECURSIVE Balanced(_, _)
Balanced(str, stack) ==
    IF str = <<>> THEN stack = <<>>
    ELSE LET c == Head(str)
         IN  CASE c \in {"{", "["} -> Balanced(Tail(str), <<c>> \o stack)
               [] c \in {"}", "]"} ->
                    /\ stack # <<>>
                    /\ Head(stack) = (IF c = "}" THEN "{" ELSE "[")
                    /\ Balanced(Tail(str), Tail(stack))
               [] OTHER -> Balanced(Tail(str), stack)
\* str is one bracket pair around well nested text
OneLayer(str) ==
    /\ Len(str) >= 2
    /\ str[1] \in {"{", "["}
    /\ Balanced(str, <<>>)
    /\ \A i \in 2..Len(str) : DepthAt(str, i) >= 1
DepthOneCommas(str) == {i \in 1..Len(str) : str[i] = "," /\ DepthAt(str, i) = 1}
Brackets(str) == Cardinality({i \in 1..Len(str) : str[i] \in {"{", "[", "}", "]"}})

\* C26: split_layer on one bracket pair splits only at the commas at nesting depth
\* one, curly and square brackets counted together, and keeps every nested bracket
\* in its segment.
C26_SplitsAtDepthOneOnly ==
    (op = "split_layer" /\ OneLayer(arg)) =>
        /\ IsOk(result)
        /\ Len(result.val) <= Cardinality(DepthOneCommas(arg)) + 1
        /\ Brackets(Join(result.val, <<>>)) = Brackets(arg) - 2

(***************************************************************************)
(* The text printers.  A HashMap is iterated in an arbitrary order: the    *)
(* printers take that order as a sequence of the table's leaf entries       *)
(* (`order`), from which the order of the sections and of the names in a   *)
(* section follows.                                                        *)
(***************************************************************************)
RECURSIVE NatToStr(_)
NatToStr(n) == IF n < 10 THEN <<Digits[n + 1]>> ELSE NatToStr(n \div 10) \o <<Digits[(n % 10) + 1]>>
\* i64::to_string, bool::to_string
int_to_string(n) == IF n < 0 THEN <<"-">> \o NatToStr(-n) ELSE NatToStr(n)
bool_to_string(b) == IF b THEN <<"t", "r", "u", "e">> ELSE <<"f", "a", "l", "s", "e">>

RECURSIVE Concat(_)
Concat(strs) == IF strs = <<>> THEN <<>> ELSE Head(strs) \o Concat(Tail(strs))

\* <String as Debug>::fmt: the string in double quotes, with escapes
RECURSIVE escape_debug(_)
escape_debug(str) ==
    IF str = <<>> THEN <<>>
    ELSE LET c == Head(str)
         IN  (CASE c = "\"" -> <<"\\", "\"">>
                [] c = "\\" -> <<"\\", "\\">>
                [] c = "\n" -> <<"\\", "n">>
                [] c = "\t" -> <<"\\", "t">>
                [] c = "\r" -> <<"\\", "r">>
                [] OTHER -> <<c>>) \o escape_debug(Tail(str))
\* format!("{:?}", Vec<String>)
debug_vec(strs) ==
    <<"[">> \o Join([i \in 1..Len(strs) |-> <<"\"">> \o escape_debug(strs[i]) \o <<"\"">>],
                    <<",", " ">>) \o <<"]">>

\* map_entries_recursive: the leaf entries of a table, each with the path of the
\* table that holds it; a nested table without leaves leaves no trace
RECURSIVE map_entries_recursive(_, _)
map_entries_recursive(map, root) ==
    UNION {IF map[key].t = "Table"
           THEN map_entries_recursive(map[key].v, Append(root, key))
           ELSE {[path |-> root, key |-> key, value |-> map[key]]} : key \in DOMAIN map}

\* the iteration orders of a finite set
Orders(S) ==
    {f \in [1..Cardinality(S) -> S] : \A i, j \in 1..Cardinality(S) : i # j => f[i] # f[j]}

RECURSIVE Distinct(_)
Distinct(seq) ==
    IF seq = <<>> THEN <<>>
    ELSE LET init == Distinct(SubSeq(seq, 1, Len(seq) - 1))
             last == seq[Len(seq)]
         IN  IF \E i \in 1..Len(init) : init[i] = last THEN init ELSE Append(init, last)

\* entries.sort_by(|x, y| x.0.len().cmp(&y.0.len())): a stable sort by path length
RECURSIVE sort_by_len(_, _)
sort_by_len(paths, l) ==
    IF paths = <<>> THEN <<>>
    ELSE LET IsL(p) == Len(p) = l
             NotL(p) == Len(p) # l
         IN  SelectSeq(paths, IsL) \o sort_by_len(SelectSeq(paths, NotL), l + 1)

\* the sections of a table in printing order, each with its entries in order
sections(order) ==
    LET paths == sort_by_len(Distinct([i \in 1..Len(order) |-> order[i].path]), 0)
    IN  [i \in 1..Len(paths) |->
            LET InPath(e) == e.path = paths[i]
            IN  [path |-> paths[i], values |-> SelectSeq(order, InPath)]]

\* a Table that is an element of an Array is printed with its entries in the
\* model's fixed order
ElemOrder(v) ==
    IF v.t = "Table" THEN CHOOSE o \in Orders(map_entries_recursive(v.v, <<>>)) : TRUE
    ELSE <<>>

\* contains_table of to_toml and to_mlist: the first nested Array decides
\* (`return contains_table(arr)`), the items after it are not looked at
RECURSIVE contains_table(_)
contains_table(arr) ==
    IF arr = <<>> THEN FALSE
    ELSE CASE Head(arr).t = "Table" -> TRUE
           [] Head(arr).t = "Array" -> contains_table(Head(arr).v)
           [] OTHER -> contains_table(Tail(arr))

\* no debug_assert!(!contains_table(..)) fails while the value is printed: the
\* assertion is made for an Array, and again for each Array printed inside it
RECURSIVE asserts_hold(_)
asserts_hold(v) ==
    CASE v.t = "Array" -> ~contains_table(v.v) /\ \A i \in 1..Len(v.v) : asserts_hold(v.v[i])
      [] v.t = "Table" -> \A k \in DOMAIN v.v : asserts_hold(v.v[k])
      [] OTHER -> TRUE

RECURSIVE to_toml(_, _)
to_toml(self, order) ==
    CASE self.t = "Empty" -> <<>>
      [] self.t = "String" -> <<"\"">> \o self.v \o <<"\"">>
      [] self.t = "Integer" -> int_to_string(self.v)
      [] self.t = "Boolean" -> bool_to_string(self.v)
      [] self.t = "Array" ->
            debug_vec([i \in 1..Len(self.v) |-> to_toml(self.v[i], ElemOrder(self.v[i]))])
      [] self.t = "Table" ->
            LET secs == sections(order)
                line(e) == e.key \o <<" ", "=", " ">> \o to_toml(e.value, <<>>) \o <<"\n">>
                section(sec) ==
                    (IF sec.path = <<>> THEN <<>>
                     ELSE <<"[">> \o Join(sec.path, <<".">>) \o <<"]", "\n">>)
                    \o Concat([j \in 1..Len(sec.values) |-> line(sec.values[j])])
                    \o <<"\n">>
            IN  Concat([i \in 1..Len(secs) |-> section(secs[i])])

\* to_mlist: the header of an entry is the path of its table followed directly by
\* its name
RECURSIVE to_mlist(_, _)
to_mlist(self, order) ==
    CASE self.t = "Empty" -> <<>>
      [] self.t = "String" -> <<"\"">> \o self.v \o <<"\"">>
      [] self.t = "Integer" -> int_to_string(self.v)
      [] self.t = "Boolean" -> bool_to_string(self.v)
      [] self.t = "Array" ->
            Concat([i \in 1..Len(self.v) |->
                        to_mlist(self.v[i], ElemOrder(self.v[i])) \o <<"\n">>])
      [] self.t = "Table" ->
            LET secs == sections(order)
                entry(e) == <<"[">> \o Join(e.path, <<".">>) \o e.key \o <<"]", "\n">>
                            \o to_mlist(e.value, <<>>) \o <<"\n">>
                section(sec) ==
                    Concat([j \in 1..Len(sec.values) |-> entry(sec.values[j])]) \o <<"\n">>
            IN  Concat([i \in 1..Len(secs) |-> section(secs[i])])

\* to_json: `keys` is the iteration order of the table's keys; nested tables are
\* printed with their keys in the model's fixed order
KeyOrder(map) == CHOOSE f \in Orders(DOMAIN map) : TRUE

RECURSIVE to_json(_, _)
to_json(self, keys) ==
    CASE self.t = "Empty" -> <<>>
      [] self.t = "String" -> <<"\"">> \o self.v \o <<"\"">>
      [] self.t = "Integer" -> int_to_string(self.v)
      [] self.t = "Boolean" -> bool_to_string(self.v)
      [] self.t = "Array" -> debug_vec([i \in 1..Len(self.v) |-> to_json(self.v[i], <<>>)])
      [] self.t = "Table" ->
            LET sub(v) == IF v.t = "Table" THEN to_json(v, KeyOrder(v.v)) ELSE to_json(v, <<>>)
                line(k) == <<"\t">> \o k \o <<":", " ">> \o sub(self.v[k]) \o <<",", "\n">>
            IN  <<"{", "\n">> \o Concat([i \in 1..Len(keys) |-> line(keys[i])]) \o <<"}">>
(***************************************************************************)
(* Printing a value and parsing the printed text again.                    *)
(***************************************************************************)
MaxEntries == 2     \* entries of one table
MaxDepth == 3       \* tables nested in one another

PrintKeys == {<<"a">>, <<"b", "c">>, <<>>}
TomlLeaves == {TInteger(-12), TBoolean(TRUE)}
MlistLeaves == {TArray(<<TInteger(1), TInteger(2)>>), TArray(<<TString_(<<"x">>)>>)}
IntArrays == {TArray(<<TInteger(1), TInteger(2)>>), TArray(<<TInteger(7)>>)}

TablesOver(vals) ==
    {TTable(f) : f \in UNION {[K -> vals] :
        K \in {K \in SUBSET PrintKeys : K # {} /\ Cardinality(K) <= MaxEntries}}}

\* every table up to two levels, and chains of single-entry tables around them
RECURSIVE TablesOfDepth(_, _)
TablesOfDepth(d, leaves) ==
    IF d = 1 THEN TablesOver(leaves)
    ELSE LET inner == TablesOfDepth(d - 1, leaves)
         IN  IF d = 2 THEN TablesOver(leaves \cup inner)
             ELSE inner \cup {TTable(k :> t) : k \in PrintKeys,
                                t \in {x \in inner : Cardinality(DOMAIN x.v) = 1}}

TomlValues == TablesOfDepth(MaxDepth, TomlLeaves) \cup TablesOver(IntArrays)
MlistValues == TablesOfDepth(MaxDepth, MlistLeaves)
JsonValues == IntArrays \cup TablesOver(TomlLeaves \cup IntArrays)

InitPrint == InitBin

\* the printed text is parsed again; text keeps the value that was printed
RoundTrip(v, printed, parsed) ==
    /\ op = "new"
    /\ text' = v
    /\ arg' = printed
    /\ result' = parsed
    /\ before' = text
    /\ UNCHANGED <<bytes, written, sync, expect, nread>>

TomlRoundTrip ==
    /\ op = "new"
    /\ \E v \in TomlValues : \E order \in Orders(map_entries_recursive(v.v, <<>>)) :
           /\ op' = "toml_round_trip"
           /\ RoundTrip(v, to_toml(v, order), from_toml(to_toml(v, order)))

MlistRoundTrip ==
    /\ op = "new"
    /\ \E v \in MlistValues : \E order \in Orders(map_entries_recursive(v.v, <<>>)) :
           /\ op' = "mlist_round_trip"
           /\ RoundTrip(v, to_mlist(v, order), from_mlist(to_mlist(v, order)))

JsonRoundTrip ==
    /\ op = "new"
    /\ \E v \in JsonValues :
           \E keys \in (IF v.t = "Table" THEN Orders(DOMAIN v.v) ELSE {<<>>}) :
               /\ op' = "json_round_trip"
               /\ RoundTrip(v, to_json(v, keys), from_json(to_json(v, keys)))

\* Arrays handed to the printers, with and without a Table among their items
ATable == TTable(<<"a">> :> TInteger(1))
ArrayValues == {
    TArray(<<TInteger(1)>>),
    TArray(<<ATable>>),
    TArray(<<TInteger(1), ATable>>),
    TArray(<<TArray(<<ATable>>)>>),
    TArray(<<TArray(<<TInteger(1)>>), TArray(<<ATable>>)>>),
    TArray(<<TArray(<<TInteger(1)>>), ATable>>) }

\* to_toml / to_mlist of an Array.  debug_assert! is compiled only into builds with
\* debug assertions: `debug` is the build.  A failed assertion is a panic.
Printed(v, debug, printed) ==
    /\ op = "new"
    /\ text' = v
    /\ arg' = debug
    /\ result' = IF debug /\ ~asserts_hold(v) THEN Panic ELSE Ok(printed)
    /\ before' = text
    /\ UNCHANGED <<bytes, written, sync, expect, nread>>

ToTomlArray ==
    /\ op = "new"
    /\ \E v \in ArrayValues, debug \in BOOLEAN :
           /\ op' = "to_toml"
           /\ Printed(v, debug, to_toml(v, <<>>))
ToMlistArray ==
    /\ op = "new"
    /\ \E v \in ArrayValues, debug \in BOOLEAN :
           /\ op' = "to_mlist"
           /\ Printed(v, debug, to_mlist(v, <<>>))

NextPrint ==
    \/ ToTomlArray
    \/ ToMlistArray
    \/ TomlRoundTrip
    \/ MlistRoundTrip
    \/ JsonRoundTrip

SpecPrint == InitPrint /\ [][NextPrint]_vars

\* the value is a table, or a leaf of one of the given variants; every nested
\* table is non-empty
RECURSIVE IsTableOf(_, _)
IsTableOf(v, variants) ==
    IF v.t = "Table"
    THEN DOMAIN v.v # {} /\ \A k \in DOMAIN v.v : IsTableOf(v.v[k], variants)
    ELSE v.t \in variants

\* C13: for every Table of integer and boolean leaves and non-empty nested Tables,
\* with key names free of '.', '=', '[', ']' and whitespace, from_toml(to_toml(v)) = v.
C13_TomlNestedRoundTrip ==
    (op = "toml_round_trip" /\ IsTableOf(text, {"Integer", "Boolean"})) => result = Ok(text)

\* C15: for every Table whose leaves are arrays of scalars and whose other entries
\* are nested Tables, from_mlist(to_mlist(v)) = v.
C15_MlistNestedRoundTrip ==
    (op = "mlist_round_trip" /\ IsTableOf(text, {"Array"})) => result = Ok(text)

\* C16: an Array of integers printed by to_json and reparsed by from_json is the
\* same Array, and a Table entry holding an Array of integers printed by to_toml
\* and reparsed by from_toml is the same entry.
C16_IntArrayRoundTrip ==
    /\ (op = "json_round_trip" /\ text \in IntArrays) => result = Ok(text)
    /\ (op = "toml_round_trip" /\ text \in TablesOver(IntArrays) /\ <<>> \notin DOMAIN text.v)
            => result = Ok(text)

\* the value holds a Table, at any position and any depth of its Arrays
RECURSIVE HoldsTable(_)
HoldsTable(v) ==
    CASE v.t = "Table" -> TRUE
      [] v.t = "Array" -> \E i \in 1..Len(v.v) : HoldsTable(v.v[i])
      [] OTHER -> FALSE

\* C23: to_toml and to_mlist reject (assertion failure, no output) every Array that
\* contains a Table at any position and any nesting depth.
C23_ArrayWithTableRejected ==
    (op \in {"to_toml", "to_mlist"} /\ HoldsTable(text)) => IsPanic(result)

====
